---- MODULE Spec2Model ----
(***************************************************************************)
(* A model of the go-jmespath expression engine: the lexer, the Pratt      *)
(* parser, the function dispatcher with user-function registration, and    *)
(* the Search entry points.  Expressions are sequences of one-character    *)
(* strings (ASCII runes, one byte wide); tokens, AST nodes and errors are  *)
(* records with the field names of the Go structs.                         *)
(***************************************************************************)
EXTENDS Integers, Sequences, FiniteSets, TLC

\* ------------------------------------------------------------------------
\* Bounds of the model
\* ------------------------------------------------------------------------
\* Longest expression text (in characters) typed into Compile.
MaxLen == 4

\* ------------------------------------------------------------------------
\* Generic helpers
\* ------------------------------------------------------------------------
RECURSIVE Str(_)
\* The Go string made of a sequence of runes.
Str(s) == IF s = <<>> THEN "" ELSE s[1] \o Str(Tail(s))

Max(a, b) == IF a >= b THEN a ELSE b
Min(a, b) == IF a <= b THEN a ELSE b

\* s[lo:hi] of Go (0-based, hi exclusive).
Slice0(s, lo, hi) == SubSeq(s, lo + 1, hi)

\* ------------------------------------------------------------------------
\* Errors
\* ------------------------------------------------------------------------
nil == [kind |-> "nil"]

\* SyntaxError{msg, Expression, Offset}
SyntaxError(msg, expression, offset) ==
  [kind |-> "SyntaxError", msg |-> msg, Expression |-> expression, Offset |-> offset]

\* An error of encoding/json returned by json.Unmarshal.
jsonError == [kind |-> "json.SyntaxError"]

\* An error of strconv returned by strconv.Atoi.
numError == [kind |-> "strconv.NumError"]

\* ------------------------------------------------------------------------
\* Lexer (src/lexer.go)
\* ------------------------------------------------------------------------
eof == "EOF"

\* The backquote rune that delimits a JSON literal (written as a name: the
\* character itself cannot appear in a string of this module).
Backquote == "BACKQUOTE"

Digits == {"0", "1", "2", "3", "4", "5", "6", "7", "8", "9"}

identifierStart ==
  {"a", "b", "c", "d", "e", "f", "g", "h", "i", "j", "k", "l", "m",
   "n", "o", "p", "q", "r", "s", "t", "u", "v", "w", "x", "y", "z",
   "A", "B", "C", "D", "E", "F", "G", "H", "I", "J", "K", "L", "M",
   "N", "O", "P", "Q", "R", "S", "T", "U", "V", "W", "X", "Y", "Z", "_"}

identifierTrailing == identifierStart \cup Digits

whiteSpace == {" ", "\t", "\n", "\r"}

basicTokens ==
  [r \in {".", "*", ",", ":", "{", "}", "]", "(", ")", "@", "&"} |->
     CASE r = "." -> "tDot"
       [] r = "*" -> "tStar"
       [] r = "," -> "tComma"
       [] r = ":" -> "tColon"
       [] r = "{" -> "tLbrace"
       [] r = "}" -> "tRbrace"
       [] r = "]" -> "tRbracket"
       [] r = "(" -> "tLparen"
       [] r = ")" -> "tRparen"
       [] r = "@" -> "tCurrent"
       [] r = "&" -> "tExpref"]

token(tokenType, value, position, length) ==
  [tokenType |-> tokenType, value |-> value, position |-> position, length |-> length]

NewLexer == [expression |-> <<>>, currentPos |-> 0, lastWidth |-> 0]

next(lexer) ==
  IF lexer.currentPos >= Len(lexer.expression)
  THEN [r |-> eof, lexer |-> [lexer EXCEPT !.lastWidth = 0]]
  ELSE [r |-> lexer.expression[lexer.currentPos + 1],
        lexer |-> [lexer EXCEPT !.lastWidth = 1, !.currentPos = @ + 1]]

back(lexer) == [lexer EXCEPT !.currentPos = @ - lexer.lastWidth]

peek(lexer) == LET n == next(lexer) IN [r |-> n.r, lexer |-> back(n.lexer)]

RECURSIVE consumeUntilLoop(_, _, _)
\* The for loop of consumeUntil: the lexer after the loop.
consumeUntilLoop(lexer, current, end) ==
  IF current # end /\ current # eof
  THEN LET l1 == IF current = "\\"
                 THEN LET pk == peek(lexer)
                      IN IF pk.r # eof THEN next(pk.lexer).lexer ELSE pk.lexer
                 ELSE lexer
           n == next(l1)
       IN consumeUntilLoop(n.lexer, n.r, end)
  ELSE lexer

consumeUntil(lexer, end) ==
  LET start == lexer.currentPos
      n == next(lexer)
      l2 == consumeUntilLoop(n.lexer, n.r, end)
  IN IF l2.lastWidth = 0
     THEN [value |-> <<>>, lexer |-> l2,
           err |-> SyntaxError("Unclosed delimiter", l2.expression, Len(l2.expression))]
     ELSE [value |-> Slice0(l2.expression, start, l2.currentPos - l2.lastWidth),
           lexer |-> l2, err |-> nil]

RECURSIVE ReplaceBacktick(_)
\* strings.Replace(value, backslash backquote, backquote, -1)
ReplaceBacktick(s) ==
  IF Len(s) = 0 THEN <<>>
  ELSE IF Len(s) >= 2 /\ s[1] = "\\" /\ s[2] = Backquote
       THEN <<Backquote>> \o ReplaceBacktick(SubSeq(s, 3, Len(s)))
       ELSE <<s[1]>> \o ReplaceBacktick(Tail(s))

consumeLiteral(lexer) ==
  LET start == lexer.currentPos
      replaced(u, value) == [t |-> token("tJSONLiteral", value, start, Len(value)),
                             lexer |-> u.lexer, err |-> nil]
      consumed(u) ==
        IF u.err # nil
        THEN [t |-> token("tUnknown", <<>>, 0, 0), lexer |-> u.lexer, err |-> u.err]
        ELSE replaced(u, ReplaceBacktick(u.value))
  IN consumed(consumeUntil(lexer, Backquote))

RECURSIVE rawStringLoop(_, _, _, _)
\* The for loop of consumeRawStringLiteral.
rawStringLoop(lexer, current, currentIndex, buffer) ==
  IF current = "'" THEN [lexer |-> lexer, currentIndex |-> currentIndex, buffer |-> buffer]
  ELSE LET pk == peek(lexer)
       IN IF pk.r = eof
          THEN [lexer |-> pk.lexer, currentIndex |-> currentIndex, buffer |-> buffer]
          ELSE IF current = "\\" /\ pk.r = "'"
               THEN LET chunk == Slice0(pk.lexer.expression, currentIndex, pk.lexer.currentPos - 1)
                        l2 == next(pk.lexer).lexer
                        n == next(l2)
                    IN rawStringLoop(n.lexer, n.r, l2.currentPos, buffer \o chunk \o <<"'">>)
               ELSE LET n == next(pk.lexer)
                    IN rawStringLoop(n.lexer, n.r, currentIndex, buffer)

consumeRawStringLiteral(lexer) ==
  LET start == lexer.currentPos
      n == next(lexer)
      lp == rawStringLoop(n.lexer, n.r, start, <<>>)
      l2 == lp.lexer
      value == IF lp.currentIndex < l2.currentPos
               THEN lp.buffer \o Slice0(l2.expression, lp.currentIndex, l2.currentPos - 1)
               ELSE lp.buffer
  IN IF l2.lastWidth = 0
     THEN [t |-> token("tUnknown", <<>>, 0, 0), lexer |-> l2,
           err |-> SyntaxError("Unclosed delimiter", l2.expression, Len(l2.expression))]
     ELSE [t |-> token("tStringLiteral", value, start, Len(value)),
           lexer |-> l2, err |-> nil]

syntaxErrorLexer(lexer, msg) == SyntaxError(msg, lexer.expression, lexer.currentPos)

matchOrElse(lexer, first, second, matchedType, singleCharType) ==
  LET start == lexer.currentPos - lexer.lastWidth
      n == next(lexer)
  IN IF n.r = second
     THEN [t |-> token(matchedType, <<first, second>>, start, 2), lexer |-> n.lexer]
     ELSE [t |-> token(singleCharType, <<first>>, start, 1), lexer |-> back(n.lexer)]

consumeLBracket(lexer) ==
  LET start == lexer.currentPos - lexer.lastWidth
      n == next(lexer)
  IN IF n.r = "?"
     THEN [t |-> token("tFilter", <<"[", "?">>, start, 2), lexer |-> n.lexer]
     ELSE IF n.r = "]"
          THEN [t |-> token("tFlatten", <<"[", "]">>, start, 2), lexer |-> n.lexer]
          ELSE [t |-> token("tLbracket", <<"[">>, start, 1), lexer |-> back(n.lexer)]

RECURSIVE consumeWhile(_, _)
\* next() until a rune outside the set is read, then back().
consumeWhile(lexer, set) ==
  LET n == next(lexer)
  IN IF n.r \in set THEN consumeWhile(n.lexer, set) ELSE back(n.lexer)

consumeUnquotedIdentifier(lexer) ==
  LET start == lexer.currentPos - lexer.lastWidth
      l2 == consumeWhile(lexer, identifierTrailing)
  IN [t |-> token("tUnquotedIdentifier", Slice0(l2.expression, start, l2.currentPos),
                  start, l2.currentPos - start),
      lexer |-> l2]

consumeNumber(lexer) ==
  LET start == lexer.currentPos - lexer.lastWidth
      l2 == consumeWhile(lexer, Digits)
  IN [t |-> token("tNumber", Slice0(l2.expression, start, l2.currentPos),
                  start, l2.currentPos - start),
      lexer |-> l2]

\* ------------------------------------------------------------------------
\* Values (the JSON variant the interpreter works on)
\* ------------------------------------------------------------------------
Null == [t |-> "null"]
Bool(b) == [t |-> "bool", v |-> b]
Number(n) == [t |-> "number", v |-> n]
\* A string is the sequence of its runes.
String(s) == [t |-> "string", v |-> s]
Array(items) == [t |-> "array", v |-> items]
Object(m) == [t |-> "object", v |-> m]

\* The map with no key.
EmptyMap == [k \in {} |-> Null]

\* m with m[k] = v (Go: m[k] = v).
MapSet(m, k, v) == [x \in DOMAIN m \cup {k} |-> IF x = k THEN v ELSE m[x]]

\* ------------------------------------------------------------------------
\* encoding/json and strconv, as far as the lexer and the parser use them
\* ------------------------------------------------------------------------
DigitVal ==
  [d \in Digits |->
     CASE d = "0" -> 0 [] d = "1" -> 1 [] d = "2" -> 2 [] d = "3" -> 3
       [] d = "4" -> 4 [] d = "5" -> 5 [] d = "6" -> 6 [] d = "7" -> 7
       [] d = "8" -> 8 [] d = "9" -> 9]

RECURSIVE digitsValue(_, _)
digitsValue(s, acc) ==
  IF s = <<>> THEN acc ELSE digitsValue(Tail(s), acc * 10 + DigitVal[s[1]])

\* strconv.Atoi: an optional sign and at least one decimal digit (the texts
\* of the model are too short to leave the range of int).
Atoi(s) ==
  LET signed == Len(s) >= 1 /\ s[1] \in {"-", "+"}
      body == IF signed THEN Tail(s) ELSE s
  IN IF body = <<>> \/ \E k \in 1..Len(body) : body[k] \notin Digits
     THEN [n |-> 0, err |-> numError]
     ELSE [n |-> IF signed /\ s[1] = "-" THEN 0 - digitsValue(body, 0)
                 ELSE digitsValue(body, 0),
           err |-> nil]

HexDigits == Digits \cup {"a", "b", "c", "d", "e", "f", "A", "B", "C", "D", "E", "F"}

\* The escapes of a JSON string and the text each stands for.
jsonEscapes ==
  [e \in {"\"", "\\", "/", "b", "f", "n", "r", "t"} |->
     CASE e = "\"" -> "\""
       [] e = "\\" -> "\\"
       [] e = "/" -> "/"
       [] e = "b" -> "<BS>"
       [] e = "f" -> "\f"
       [] e = "n" -> "\n"
       [] e = "r" -> "\r"
       [] e = "t" -> "\t"]

jsonFail(i) == [ok |-> FALSE, pos |-> i, val |-> Null]

RECURSIVE jsonSkipWS(_, _)
jsonSkipWS(s, i) ==
  IF i <= Len(s) /\ s[i] \in whiteSpace THEN jsonSkipWS(s, i + 1) ELSE i

RECURSIVE jsonStringBody(_, _, _)
\* The body of a JSON string from position i (after the opening quote).
jsonStringBody(s, i, acc) ==
  IF i > Len(s) THEN jsonFail(i)
  ELSE IF s[i] = "\"" THEN [ok |-> TRUE, pos |-> i + 1, val |-> String(acc)]
  ELSE IF s[i] = "\\"
       THEN IF i + 1 > Len(s) THEN jsonFail(i)
            ELSE IF s[i + 1] \in DOMAIN jsonEscapes
                 THEN jsonStringBody(s, i + 2, Append(acc, jsonEscapes[s[i + 1]]))
                 ELSE IF s[i + 1] = "u" /\ i + 5 <= Len(s)
                         /\ \A k \in 2..5 : s[i + k] \in HexDigits
                      THEN jsonStringBody(s, i + 6,
                             Append(acc, "\\u" \o Str(SubSeq(s, i + 2, i + 5))))
                      ELSE jsonFail(i)
  ELSE IF s[i] \in {"\t", "\n", "\r"} THEN jsonFail(i)
  ELSE jsonStringBody(s, i + 1, Append(acc, s[i]))

RECURSIVE jsonDigits(_, _)
\* The position after the run of digits that starts at i.
jsonDigits(s, i) ==
  IF i <= Len(s) /\ s[i] \in Digits THEN jsonDigits(s, i + 1) ELSE i

\* A JSON number at position i: -?(0|[1-9][0-9]*)(\.[0-9]+)?([eE][+-]?[0-9]+)?
jsonNumber(s, i) ==
  LET i1 == IF i <= Len(s) /\ s[i] = "-" THEN i + 1 ELSE i
      i2 == IF i1 <= Len(s) /\ s[i1] = "0" THEN i1 + 1 ELSE jsonDigits(s, i1)
      hasFrac == i2 <= Len(s) /\ s[i2] = "."
      i3 == IF hasFrac THEN jsonDigits(s, i2 + 1) ELSE i2
      hasExp == i3 <= Len(s) /\ s[i3] \in {"e", "E"}
      i4 == IF hasExp /\ i3 + 1 <= Len(s) /\ s[i3 + 1] \in {"+", "-"} THEN i3 + 2 ELSE i3 + 1
      i5 == IF hasExp THEN jsonDigits(s, i4) ELSE i3
      int == Atoi(SubSeq(s, i, i2 - 1)).n
  IN IF i2 = i1 \/ (hasFrac /\ i3 = i2 + 1) \/ (hasExp /\ i5 = i4)
     THEN jsonFail(i)
     ELSE [ok |-> TRUE, pos |-> i5,
           val |-> IF hasFrac \/ hasExp
                   THEN [t |-> "number", v |-> int, rest |-> SubSeq(s, i2, i5 - 1)]
                   ELSE Number(int)]

jsonWord(s, i, word, val) ==
  IF i + Len(word) - 1 <= Len(s) /\ SubSeq(s, i, i + Len(word) - 1) = word
  THEN [ok |-> TRUE, pos |-> i + Len(word), val |-> val]
  ELSE jsonFail(i)

RECURSIVE jsonValue(_, _), jsonElements(_, _, _), jsonMembers(_, _, _)
\* A JSON value at position i (after white space).
jsonValue(s, i0) ==
  LET i == jsonSkipWS(s, i0)
  IN IF i > Len(s) THEN jsonFail(i)
     ELSE IF s[i] = "\"" THEN jsonStringBody(s, i + 1, <<>>)
     ELSE IF s[i] = "-" \/ s[i] \in Digits THEN jsonNumber(s, i)
     ELSE IF s[i] = "t" THEN jsonWord(s, i, <<"t", "r", "u", "e">>, Bool(TRUE))
     ELSE IF s[i] = "f" THEN jsonWord(s, i, <<"f", "a", "l", "s", "e">>, Bool(FALSE))
     ELSE IF s[i] = "n" THEN jsonWord(s, i, <<"n", "u", "l", "l">>, Null)
     ELSE IF s[i] = "["
          THEN LET j == jsonSkipWS(s, i + 1)
               IN IF j <= Len(s) /\ s[j] = "]"
                  THEN [ok |-> TRUE, pos |-> j + 1, val |-> Array(<<>>)]
                  ELSE jsonElements(s, j, <<>>)
     ELSE IF s[i] = "{"
          THEN LET j == jsonSkipWS(s, i + 1)
               IN IF j <= Len(s) /\ s[j] = "}"
                  THEN [ok |-> TRUE, pos |-> j + 1, val |-> Object(EmptyMap)]
                  ELSE jsonMembers(s, j, EmptyMap)
     ELSE jsonFail(i)

\* The elements of a JSON array from position i up to the closing bracket.
jsonElements(s, i, acc) ==
  LET after(e, j) ==
        IF ~e.ok \/ j > Len(s) THEN jsonFail(i)
        ELSE IF s[j] = "]"
             THEN [ok |-> TRUE, pos |-> j + 1, val |-> Array(Append(acc, e.val))]
        ELSE IF s[j] = "," THEN jsonElements(s, j + 1, Append(acc, e.val))
        ELSE jsonFail(j)
      element(e) == after(e, jsonSkipWS(s, e.pos))
  IN element(jsonValue(s, i))

\* The members of a JSON object from position i up to the closing brace.
jsonMembers(s, i0, acc) ==
  LET after(k, c, e, j) ==
        IF ~e.ok \/ j > Len(s) THEN jsonFail(c)
        ELSE IF s[j] = "}"
             THEN [ok |-> TRUE, pos |-> j + 1,
                   val |-> Object(MapSet(acc, Str(k.val.v), e.val))]
        ELSE IF s[j] = "," THEN jsonMembers(s, j + 1, MapSet(acc, Str(k.val.v), e.val))
        ELSE jsonFail(j)
      value(k, c, e) == after(k, c, e, jsonSkipWS(s, e.pos))
      colon(i, k, c) ==
        IF ~k.ok \/ c > Len(s) THEN jsonFail(i)
        ELSE IF s[c] # ":" THEN jsonFail(c)
        ELSE value(k, c, jsonValue(s, c + 1))
      key(i, k) == colon(i, k, jsonSkipWS(s, k.pos))
      member(i) ==
        key(i, IF i <= Len(s) /\ s[i] = "\"" THEN jsonStringBody(s, i + 1, <<>>)
               ELSE jsonFail(i))
  IN member(jsonSkipWS(s, i0))

\* json.Unmarshal(data, &v) for v of type interface{}.
jsonUnmarshal(data) ==
  LET decoded(r) == IF r.ok /\ jsonSkipWS(data, r.pos) > Len(data)
                    THEN [val |-> r.val, err |-> nil]
                    ELSE [val |-> Null, err |-> jsonError]
  IN decoded(jsonValue(data, 1))

consumeQuotedIdentifier(lexer) ==
  LET start == lexer.currentPos
      decoded(u, d) ==
        IF d.err # nil
        THEN [t |-> token("tUnknown", <<>>, 0, 0), lexer |-> u.lexer, err |-> d.err]
        ELSE [t |-> token("tQuotedIdentifier", d.val.v, start - 1, Len(d.val.v)),
              lexer |-> u.lexer, err |-> nil]
      consumed(u) ==
        IF u.err # nil
        THEN [t |-> token("tUnknown", <<>>, 0, 0), lexer |-> u.lexer, err |-> u.err]
        ELSE decoded(u, jsonUnmarshal(<<"\"">> \o u.value \o <<"\"">>))
  IN consumed(consumeUntil(lexer, "\""))

RECURSIVE tokenizeLoop(_, _)
\* The loop of tokenize: the tokens read and the error that stopped it.
tokenizeLoop(lexer0, tokens) ==
  LET n == next(lexer0)
      r == n.r
      lexer == n.lexer
      plain(c) == tokenizeLoop(c.lexer, Append(tokens, c.t))
      failing(c) == IF c.err # nil
                    THEN [tokens |-> tokens, err |-> c.err, lexer |-> c.lexer]
                    ELSE tokenizeLoop(c.lexer, Append(tokens, c.t))
  IN IF r \in identifierStart THEN plain(consumeUnquotedIdentifier(lexer))
     ELSE IF r \in DOMAIN basicTokens
          THEN tokenizeLoop(lexer, Append(tokens,
                 token(basicTokens[r], <<r>>, lexer.currentPos - lexer.lastWidth, 1)))
     ELSE IF r = "-" \/ r \in Digits THEN plain(consumeNumber(lexer))
     ELSE IF r = "[" THEN plain(consumeLBracket(lexer))
     ELSE IF r = "\"" THEN failing(consumeQuotedIdentifier(lexer))
     ELSE IF r = "'" THEN failing(consumeRawStringLiteral(lexer))
     ELSE IF r = Backquote THEN failing(consumeLiteral(lexer))
     ELSE IF r = "|" THEN plain(matchOrElse(lexer, r, "|", "tOr", "tPipe"))
     ELSE IF r = "<" THEN plain(matchOrElse(lexer, r, "=", "tLTE", "tLT"))
     ELSE IF r = ">" THEN plain(matchOrElse(lexer, r, "=", "tGTE", "tGT"))
     ELSE IF r = "!" THEN plain(matchOrElse(lexer, r, "=", "tNE", "tUnknown"))
     ELSE IF r = "=" THEN plain(matchOrElse(lexer, r, "=", "tEQ", "tUnknown"))
     ELSE IF r = eof
          THEN [tokens |-> Append(tokens, token("tEOF", <<>>, Len(lexer.expression), 0)),
                err |-> nil, lexer |-> lexer]
     ELSE IF r \in whiteSpace THEN tokenizeLoop(lexer, tokens)
     ELSE [tokens |-> tokens, err |-> syntaxErrorLexer(lexer, "Unknown char"),
           lexer |-> lexer]

tokenize(lexer, expression) ==
  tokenizeLoop([lexer EXCEPT !.expression = expression, !.currentPos = 0, !.lastWidth = 0],
               <<>>)

\* ------------------------------------------------------------------------
\* Parser (src/parser.go)
\* ------------------------------------------------------------------------
\* ASTNode{NodeType, Value, Children}
ASTNode(NodeType, Value, Children) ==
  [NodeType |-> NodeType, Value |-> Value, Children |-> Children]

\* The nil interface value of ASTNode.Value.
NoValue == [t |-> "nil"]

\* ASTNode{}: the zero node, whose type is ASTEmpty.
EmptyNode == ASTNode("ASTEmpty", NoValue, <<>>)

IdentityNode == ASTNode("ASTIdentity", NoValue, <<>>)

bindingPowers ==
  [t \in {"tEOF", "tUnquotedIdentifier", "tQuotedIdentifier", "tRbracket", "tRparen",
          "tComma", "tRbrace", "tNumber", "tCurrent", "tExpref", "tColon", "tPipe",
          "tOr", "tAnd", "tEQ", "tLT", "tLTE", "tGT", "tGTE", "tNE", "tFlatten",
          "tStar", "tFilter", "tDot", "tNot", "tLbrace", "tLbracket", "tLparen"} |->
     CASE t = "tPipe" -> 1
       [] t = "tOr" -> 2
       [] t = "tAnd" -> 3
       [] t \in {"tEQ", "tLT", "tLTE", "tGT", "tGTE", "tNE"} -> 5
       [] t = "tFlatten" -> 9
       [] t = "tStar" -> 20
       [] t = "tFilter" -> 21
       [] t = "tDot" -> 40
       [] t = "tNot" -> 45
       [] t = "tLbrace" -> 50
       [] t = "tLbracket" -> 55
       [] t = "tLparen" -> 60
       [] OTHER -> 0]

\* bindingPowers[t] of Go: 0 for a token type that is not a key of the map.
BP(t) == IF t \in DOMAIN bindingPowers THEN bindingPowers[t] ELSE 0

NewParser == [expression |-> <<>>, tokens |-> <<>>, index |-> 0]

IsErr(e) == e.kind # "nil"

\* The run-time panic of an index out of the range of p.tokens.
panicError == [kind |-> "panic"]

\* p.tokens[p.index+number] would be out of range.
OutOfRange(p, number) == p.index + number >= Len(p.tokens)

lookaheadToken(p, number) == p.tokens[p.index + number + 1]

lookahead(p, number) == lookaheadToken(p, number).tokenType

current(p) == lookahead(p, 0)

advance(p) == [p EXCEPT !.index = @ + 1]

\* What a parsing method returns: the node, the error, and the parser after.
Ret(node, err, p) == [node |-> node, err |-> err, p |-> p]

Panic(p) == Ret(EmptyNode, panicError, p)

syntaxError(p, msg) == SyntaxError(msg, p.expression, lookaheadToken(p, 0).position)

\* A syntaxErrorToken that takes the offset from the current token, as
\* syntaxError does.
syntaxErrorToken_Current(p, msg, t) ==
  IF OutOfRange(p, 0) THEN panicError
  ELSE SyntaxError(msg, p.expression, lookaheadToken(p, 0).position)

syntaxErrorToken(p, msg, t) == SyntaxError(msg, p.expression, t.position)

match(p, tokenType) ==
  IF OutOfRange(p, 0) THEN [err |-> panicError, p |-> p]
  ELSE IF current(p) = tokenType THEN [err |-> nil, p |-> advance(p)]
  ELSE [err |-> syntaxError(p, "Expected " \o tokenType), p |-> p]

\* A *int of the parts of a slice: nil, or a pointer to n.
NilInt == [set |-> FALSE, n |-> 0]
IntPtr(n) == [set |-> TRUE, n |-> n]

RECURSIVE sliceLoop(_, _, _)
\* The for loop of parseSliceExpression and what follows it.
sliceLoop(p, parts, index) ==
  IF OutOfRange(p, 0) THEN Panic(p)
  ELSE IF current(p) # "tRbracket" /\ index < 3
       THEN IF current(p) = "tColon" THEN sliceLoop(advance(p), parts, index + 1)
            ELSE IF current(p) = "tNumber"
                 THEN LET a == Atoi(lookaheadToken(p, 0).value)
                      IN IF IsErr(a.err) THEN Ret(EmptyNode, a.err, p)
                         ELSE sliceLoop(advance(p),
                                [parts EXCEPT ![index + 1] = IntPtr(a.n)], index)
                 ELSE Ret(EmptyNode, syntaxError(p, "Expected tColon or tNumber"), p)
       ELSE LET m == match(p, "tRbracket")
            IN IF IsErr(m.err) THEN Ret(EmptyNode, m.err, m.p)
               ELSE Ret(ASTNode("ASTSlice", parts, <<>>), nil, m.p)

parseSliceExpression(p) == sliceLoop(p, <<NilInt, NilInt, NilInt>>, 0)

parseIndexExpression(p) ==
  IF OutOfRange(p, 0) \/ (lookahead(p, 0) # "tColon" /\ OutOfRange(p, 1)) THEN Panic(p)
  ELSE IF lookahead(p, 0) = "tColon" \/ lookahead(p, 1) = "tColon"
       THEN parseSliceExpression(p)
       ELSE LET a == Atoi(lookaheadToken(p, 0).value)
                m == match(advance(p), "tRbracket")
            IN IF IsErr(a.err) THEN Ret(EmptyNode, a.err, p)
               ELSE IF IsErr(m.err) THEN Ret(EmptyNode, m.err, m.p)
               ELSE Ret(ASTNode("ASTIndex", a.n, <<>>), nil, m.p)

tokensOneOf(elements, tok) == tok \in elements

\* The methods of the parser call one another through call.
RECURSIVE call(_, _)


\* The for loop of parseExpression: led while the binding power allows.
ledLoop(p, bindingPower, leftNode) ==
  IF OutOfRange(p, 0) THEN Panic(p)
  ELSE LET currentToken == current(p)
           r == call("led", <<advance(p), currentToken, leftNode>>)
       IN IF bindingPower < BP(currentToken)
          THEN IF IsErr(r.err) THEN Ret(EmptyNode, r.err, r.p)
               ELSE call("ledLoop", <<r.p, bindingPower, r.node>>)
          ELSE Ret(leftNode, nil, p)

parseExpression(p, bindingPower) ==
  IF OutOfRange(p, 0) THEN Panic(p)
  ELSE LET leftToken == lookaheadToken(p, 0)
           l == call("nud", <<advance(p), leftToken>>)
       IN IF IsErr(l.err) THEN Ret(EmptyNode, l.err, l.p)
          ELSE call("ledLoop", <<l.p, bindingPower, l.node>>)

\* The for loop of the tLparen case of led and what follows it.
argsLoop(p, name, args) ==
  IF OutOfRange(p, 0) THEN Panic(p)
  ELSE IF current(p) # "tRparen"
       THEN LET e == call("parseExpression", <<p, 0>>)
                m == match(e.p, "tComma")
            IN IF IsErr(e.err) THEN Ret(EmptyNode, e.err, e.p)
               ELSE IF OutOfRange(e.p, 0) THEN Panic(e.p)
               ELSE IF current(e.p) = "tComma"
                    THEN IF IsErr(m.err) THEN Ret(EmptyNode, m.err, m.p)
                         ELSE call("argsLoop", <<m.p, name, Append(args, e.node)>>)
                    ELSE call("argsLoop", <<e.p, name, Append(args, e.node)>>)
       ELSE LET m == match(p, "tRparen")
            IN IF IsErr(m.err) THEN Ret(EmptyNode, m.err, m.p)
               ELSE Ret(ASTNode("ASTFunctionExpression", name, args), nil, m.p)

led(p, tokenType, node) ==
  IF tokenType = "tDot"
  THEN IF OutOfRange(p, 0) THEN Panic(p)
       ELSE IF current(p) # "tStar"
            THEN LET right == call("parseDotRHS", <<p, BP("tDot")>>)
                 IN Ret(ASTNode("ASTSubexpression", NoValue, <<node, right.node>>),
                        right.err, right.p)
            ELSE LET right == call("parseProjectionRHS", <<advance(p), BP("tDot")>>)
                 IN Ret(ASTNode("ASTValueProjection", NoValue, <<node, right.node>>),
                        right.err, right.p)
  ELSE IF tokenType = "tPipe"
  THEN LET right == call("parseExpression", <<p, BP("tPipe")>>)
       IN Ret(ASTNode("ASTPipe", NoValue, <<node, right.node>>), right.err, right.p)
  ELSE IF tokenType = "tOr"
  THEN LET right == call("parseExpression", <<p, BP("tOr")>>)
       IN Ret(ASTNode("ASTOrExpression", NoValue, <<node, right.node>>), right.err, right.p)
  ELSE IF tokenType = "tAnd"
  THEN LET right == call("parseExpression", <<p, BP("tAnd")>>)
       IN Ret(ASTNode("ASTAndExpression", NoValue, <<node, right.node>>), right.err, right.p)
  ELSE IF tokenType = "tLparen" THEN call("argsLoop", <<p, node.Value, <<>>>>)
  ELSE IF tokenType = "tFilter" THEN call("parseFilter", <<p, node>>)
  ELSE IF tokenType = "tFlatten"
  THEN LET left == ASTNode("ASTFlatten", NoValue, <<node>>)
           right == call("parseProjectionRHS", <<p, BP("tFlatten")>>)
       IN Ret(ASTNode("ASTProjection", NoValue, <<left, right.node>>), right.err, right.p)
  ELSE IF tokenType \in {"tEQ", "tNE", "tGT", "tGTE", "tLT", "tLTE"}
  THEN LET right == call("parseExpression", <<p, BP(tokenType)>>)
       IN IF IsErr(right.err) THEN Ret(EmptyNode, right.err, right.p)
          ELSE Ret(ASTNode("ASTComparator", tokenType, <<node, right.node>>), nil, right.p)
  ELSE IF tokenType = "tLbracket"
  THEN IF OutOfRange(p, 0) THEN Panic(p)
       ELSE IF current(p) = "tNumber" \/ current(p) = "tColon"
            THEN LET right == parseIndexExpression(p)
                 IN IF IsErr(right.err) THEN Ret(EmptyNode, right.err, right.p)
                    ELSE call("projectIfSlice", <<right.p, node, right.node>>)
            ELSE LET m1 == match(p, "tStar")
                     m2 == match(m1.p, "tRbracket")
                     right == call("parseProjectionRHS", <<m2.p, BP("tStar")>>)
                 IN IF IsErr(m1.err) THEN Ret(EmptyNode, m1.err, m1.p)
                    ELSE IF IsErr(m2.err) THEN Ret(EmptyNode, m2.err, m2.p)
                    ELSE IF IsErr(right.err) THEN Ret(EmptyNode, right.err, right.p)
                    ELSE Ret(ASTNode("ASTProjection", NoValue, <<node, right.node>>),
                             nil, right.p)
  ELSE IF OutOfRange(p, 0) THEN Panic(p)
  ELSE Ret(EmptyNode, syntaxError(p, "Unexpected token: " \o tokenType), p)

\* The tLbracket case of nud.  An error of parseIndexExpression is dropped:
\* the case returns ASTNode{} with a nil error (a panic still unwinds).
nudLbracket(p) ==
  IF OutOfRange(p, 0) THEN Panic(p)
  ELSE IF current(p) = "tNumber" \/ current(p) = "tColon"
       THEN LET right == parseIndexExpression(p)
            IN IF right.err.kind = "panic" THEN right
               ELSE IF IsErr(right.err) THEN Ret(EmptyNode, nil, right.p)
               ELSE call("projectIfSlice", <<right.p, IdentityNode, right.node>>)
       ELSE IF current(p) = "tStar" /\ OutOfRange(p, 1) THEN Panic(p)
       ELSE IF current(p) = "tStar" /\ lookahead(p, 1) = "tRbracket"
            THEN LET right == call("parseProjectionRHS", <<advance(advance(p)), BP("tStar")>>)
                 IN IF IsErr(right.err) THEN Ret(EmptyNode, right.err, right.p)
                    ELSE Ret(ASTNode("ASTProjection", NoValue, <<IdentityNode, right.node>>),
                             nil, right.p)
            ELSE call("parseMultiSelectList", <<p>>)

nud(p, tok) ==
  IF tok.tokenType = "tJSONLiteral"
  THEN LET literal(parsed) ==
             IF IsErr(parsed.err) THEN Ret(EmptyNode, parsed.err, p)
             ELSE Ret(ASTNode("ASTLiteral", parsed.val, <<>>), nil, p)
       IN literal(jsonUnmarshal(tok.value))
  ELSE IF tok.tokenType = "tStringLiteral"
  THEN Ret(ASTNode("ASTLiteral", String(tok.value), <<>>), nil, p)
  ELSE IF tok.tokenType = "tUnquotedIdentifier"
  THEN Ret(ASTNode("ASTField", Str(tok.value), <<>>), nil, p)
  ELSE IF tok.tokenType = "tQuotedIdentifier"
  THEN IF OutOfRange(p, 0) THEN Panic(p)
       ELSE IF current(p) = "tLparen"
            THEN Ret(EmptyNode,
                     syntaxErrorToken(p, "Can't have quoted identifier as function Name.", tok),
                     p)
            ELSE Ret(ASTNode("ASTField", Str(tok.value), <<>>), nil, p)
  ELSE IF tok.tokenType = "tStar"
  THEN IF OutOfRange(p, 0) THEN Panic(p)
       ELSE IF current(p) = "tRbracket"
            THEN Ret(ASTNode("ASTValueProjection", NoValue, <<IdentityNode, IdentityNode>>),
                     nil, p)
            ELSE LET right == call("parseProjectionRHS", <<p, BP("tStar")>>)
                 IN Ret(ASTNode("ASTValueProjection", NoValue, <<IdentityNode, right.node>>),
                        right.err, right.p)
  ELSE IF tok.tokenType = "tFilter" THEN call("parseFilter", <<p, IdentityNode>>)
  ELSE IF tok.tokenType = "tLbrace" THEN call("parseMultiSelectHash", <<p>>)
  ELSE IF tok.tokenType = "tFlatten"
  THEN LET left == ASTNode("ASTFlatten", NoValue, <<IdentityNode>>)
           right == call("parseProjectionRHS", <<p, BP("tFlatten")>>)
       IN IF IsErr(right.err) THEN Ret(EmptyNode, right.err, right.p)
          ELSE Ret(ASTNode("ASTProjection", NoValue, <<left, right.node>>), nil, right.p)
  ELSE IF tok.tokenType = "tLbracket" THEN call("nudLbracket", <<p>>)
  ELSE IF tok.tokenType = "tCurrent" THEN Ret(ASTNode("ASTCurrentNode", NoValue, <<>>), nil, p)
  ELSE IF tok.tokenType = "tExpref"
  THEN LET expression == call("parseExpression", <<p, BP("tExpref")>>)
       IN IF IsErr(expression.err) THEN Ret(EmptyNode, expression.err, expression.p)
          ELSE Ret(ASTNode("ASTExpRef", NoValue, <<expression.node>>), nil, expression.p)
  ELSE IF tok.tokenType = "tNot"
  THEN LET expression == call("parseExpression", <<p, BP("tNot")>>)
       IN IF IsErr(expression.err) THEN Ret(EmptyNode, expression.err, expression.p)
          ELSE Ret(ASTNode("ASTNotExpression", NoValue, <<expression.node>>), nil, expression.p)
  ELSE IF tok.tokenType = "tLparen"
  THEN LET expression == call("parseExpression", <<p, 0>>)
           m == match(expression.p, "tRparen")
       IN IF IsErr(expression.err) THEN Ret(EmptyNode, expression.err, expression.p)
          ELSE IF IsErr(m.err) THEN Ret(EmptyNode, m.err, m.p)
          ELSE Ret(expression.node, nil, m.p)
  ELSE IF tok.tokenType = "tEOF"
  THEN Ret(EmptyNode, syntaxErrorToken(p, "Incomplete expression", tok), p)
  ELSE Ret(EmptyNode, syntaxErrorToken(p, "Invalid token: " \o tok.tokenType, tok), p)

\* The for loop of parseMultiSelectList and what follows it.
listLoop(p, expressions) ==
  LET e == call("parseExpression", <<p, 0>>)
      all == Append(expressions, e.node)
      m == match(e.p, "tComma")
      close == match(e.p, "tRbracket")
  IN IF IsErr(e.err) THEN Ret(EmptyNode, e.err, e.p)
     ELSE IF OutOfRange(e.p, 0) THEN Panic(e.p)
     ELSE IF current(e.p) = "tRbracket"
          THEN IF IsErr(close.err) THEN Ret(EmptyNode, close.err, close.p)
               ELSE Ret(ASTNode("ASTMultiSelectList", NoValue, all), nil, close.p)
          ELSE IF IsErr(m.err) THEN Ret(EmptyNode, m.err, m.p)
               ELSE call("listLoop", <<m.p, all>>)

parseMultiSelectList(p) == call("listLoop", <<p, <<>>>>)

\* The for loop of parseMultiSelectHash and what follows it.
hashLoop(p, children) ==
  IF OutOfRange(p, 0) THEN Panic(p)
  ELSE
  LET keyToken == lookaheadToken(p, 0)
      m1 == match(p, "tUnquotedIdentifier")
      m2 == match(p, "tQuotedIdentifier")
      afterKey == IF IsErr(m1.err) THEN m2.p ELSE m1.p
      keyName == Str(keyToken.value)
      colon == match(afterKey, "tColon")
      value == call("parseExpression", <<colon.p, 0>>)
      all == Append(children, ASTNode("ASTKeyValPair", keyName, <<value.node>>))
      comma == match(value.p, "tComma")
      brace == match(value.p, "tRbrace")
  IN IF IsErr(m1.err) /\ IsErr(m2.err)
     THEN Ret(EmptyNode,
              syntaxError(p, "Expected tQuotedIdentifier or tUnquotedIdentifier"), p)
     ELSE IF IsErr(colon.err) THEN Ret(EmptyNode, colon.err, colon.p)
     ELSE IF IsErr(value.err) THEN Ret(EmptyNode, value.err, value.p)
     ELSE IF OutOfRange(value.p, 0) THEN Panic(value.p)
     ELSE IF current(value.p) = "tComma"
          THEN IF IsErr(comma.err) THEN Ret(EmptyNode, nil, comma.p)
               ELSE call("hashLoop", <<comma.p, all>>)
     ELSE IF current(value.p) = "tRbrace"
          THEN IF IsErr(brace.err) THEN Ret(EmptyNode, nil, brace.p)
               ELSE Ret(ASTNode("ASTMultiSelectHash", NoValue, all), nil, brace.p)
     ELSE call("hashLoop", <<value.p, all>>)

parseMultiSelectHash(p) == call("hashLoop", <<p, <<>>>>)

projectIfSlice(p, left, right) ==
  LET indexExpr == ASTNode("ASTIndexExpression", NoValue, <<left, right>>)
      rhs == call("parseProjectionRHS", <<p, BP("tStar")>>)
  IN IF right.NodeType = "ASTSlice"
     THEN Ret(ASTNode("ASTProjection", NoValue, <<indexExpr, rhs.node>>), rhs.err, rhs.p)
     ELSE Ret(indexExpr, nil, p)

parseFilter(p, node) ==
  LET condition == call("parseExpression", <<p, 0>>)
      m == match(condition.p, "tRbracket")
      right == call("parseProjectionRHS", <<m.p, BP("tFilter")>>)
  IN IF IsErr(condition.err) THEN Ret(EmptyNode, condition.err, condition.p)
     ELSE IF IsErr(m.err) THEN Ret(EmptyNode, m.err, m.p)
     ELSE IF OutOfRange(m.p, 0) THEN Panic(m.p)
     ELSE IF current(m.p) = "tFlatten"
          THEN Ret(ASTNode("ASTFilterProjection", NoValue,
                           <<node, IdentityNode, condition.node>>), nil, m.p)
          ELSE IF IsErr(right.err) THEN Ret(EmptyNode, right.err, right.p)
               ELSE Ret(ASTNode("ASTFilterProjection", NoValue,
                                <<node, right.node, condition.node>>), nil, right.p)

parseDotRHS(p, bindingPower) ==
  IF OutOfRange(p, 0) THEN Panic(p)
  ELSE IF tokensOneOf({"tQuotedIdentifier", "tUnquotedIdentifier", "tStar"}, current(p))
       THEN call("parseExpression", <<p, bindingPower>>)
  ELSE IF current(p) = "tLbracket"
       THEN LET m == match(p, "tLbracket")
            IN IF IsErr(m.err) THEN Ret(EmptyNode, m.err, m.p)
               ELSE call("parseMultiSelectList", <<m.p>>)
  ELSE IF current(p) = "tLbrace"
       THEN LET m == match(p, "tLbrace")
            IN IF IsErr(m.err) THEN Ret(EmptyNode, m.err, m.p)
               ELSE call("parseMultiSelectHash", <<m.p>>)
  ELSE Ret(EmptyNode, syntaxError(p, "Expected identifier, lbracket, or lbrace"), p)

\* A parseProjectionRHS that ends the projection at the tokens of binding
\* power 0 only.
parseProjectionRHS_Zero(p, bindingPower) ==
  IF OutOfRange(p, 0) THEN Panic(p)
  ELSE IF BP(current(p)) < 1 THEN Ret(IdentityNode, nil, p)
  ELSE IF current(p) = "tLbracket" THEN call("parseExpression", <<p, bindingPower>>)
  ELSE IF current(p) = "tFilter" THEN call("parseExpression", <<p, bindingPower>>)
  ELSE IF current(p) = "tDot"
       THEN LET m == match(p, "tDot")
            IN IF IsErr(m.err) THEN Ret(EmptyNode, m.err, m.p)
               ELSE call("parseDotRHS", <<m.p, bindingPower>>)
  ELSE Ret(EmptyNode, syntaxError(p, "Error"), p)

parseProjectionRHS(p, bindingPower) ==
  IF OutOfRange(p, 0) THEN Panic(p)
  ELSE IF BP(current(p)) < 10 THEN Ret(IdentityNode, nil, p)
  ELSE IF current(p) = "tLbracket" THEN call("parseExpression", <<p, bindingPower>>)
  ELSE IF current(p) = "tFilter" THEN call("parseExpression", <<p, bindingPower>>)
  ELSE IF current(p) = "tDot"
       THEN LET m == match(p, "tDot")
            IN IF IsErr(m.err) THEN Ret(EmptyNode, m.err, m.p)
               ELSE call("parseDotRHS", <<m.p, bindingPower>>)
  ELSE Ret(EmptyNode, syntaxError(p, "Error"), p)

\* A call of a method of the parser: call(m, args) is p.m(args...), args[1] being p.
call(m, args) ==
  CASE m = "parseExpression" -> parseExpression(args[1], args[2])
    [] m = "ledLoop" -> ledLoop(args[1], args[2], args[3])
    [] m = "led" -> led(args[1], args[2], args[3])
    [] m = "argsLoop" -> argsLoop(args[1], args[2], args[3])
    [] m = "nudLbracket" -> nudLbracket(args[1])
    [] m = "nud" -> nud(args[1], args[2])
    [] m = "listLoop" -> listLoop(args[1], args[2])
    [] m = "parseMultiSelectList" -> parseMultiSelectList(args[1])
    [] m = "hashLoop" -> hashLoop(args[1], args[2])
    [] m = "parseMultiSelectHash" -> parseMultiSelectHash(args[1])
    [] m = "projectIfSlice" -> projectIfSlice(args[1], args[2], args[3])
    [] m = "parseFilter" -> parseFilter(args[1], args[2])
    [] m = "parseDotRHS" -> parseDotRHS(args[1], args[2])
    [] m = "parseProjectionRHS" -> parseProjectionRHS(args[1], args[2])

\* Parser.Parse from p.tokens = tokens on: parseExpression(0), and the test
\* that the token that follows is tEOF.
parseTokens(p1, tokens) ==
  LET finish(parsed) ==
        IF IsErr(parsed.err) THEN Ret(EmptyNode, parsed.err, parsed.p)
        ELSE IF OutOfRange(parsed.p, 0) THEN Panic(parsed.p)
        ELSE IF current(parsed.p) # "tEOF"
             THEN Ret(EmptyNode,
                      syntaxError(parsed.p, "Unexpected token at the end of the expression"),
                      parsed.p)
             ELSE Ret(parsed.node, nil, parsed.p)
  IN finish(call("parseExpression", <<[p1 EXCEPT !.tokens = tokens], 0>>))

\* A Parse that goes on from the index the parser stands at.
Parse_KeepIndex(p0, expression) ==
  LET p1 == [p0 EXCEPT !.expression = expression]
      parse(lexed) ==
        IF IsErr(lexed.err) THEN Ret(EmptyNode, lexed.err, p1)
        ELSE parseTokens(p1, lexed.tokens)
  IN parse(tokenize(NewLexer, expression))

\* Parser.Parse: the node and error returned, and the parser after the call.
Parse(p0, expression) ==
  LET p1 == [p0 EXCEPT !.expression = expression, !.index = 0]
      parse(lexed) ==
        IF IsErr(lexed.err) THEN Ret(EmptyNode, lexed.err, p1)
        ELSE parseTokens(p1, lexed.tokens)
  IN parse(tokenize(NewLexer, expression))

\* ------------------------------------------------------------------------
\* Function library (src/unnamed/part_001)
\* ------------------------------------------------------------------------
\* errors.New(msg): an error that is only a message.  The parts a message is
\* formatted from are kept as fields.
errorString(msg, name, expected, count) ==
  [kind |-> "errors.errorString", msg |-> msg, name |-> name,
   expected |-> expected, count |-> count]

\* "invalid arity, the function 'name' expects N argument(s) [or more] but
\* [only] K were supplied"
notEnoughArgumentsSupplied(name, count, minExpected, variadic) ==
  errorString(IF variadic THEN "invalid arity, expects or more" ELSE "invalid arity, expects",
              name, minExpected, count)

\* "invalid arity, the function 'name' expects at most N arguments but K were
\* supplied"
tooManyArgumentsSupplied(name, count, maxExpected) ==
  errorString("invalid arity, expects at most", name, maxExpected, count)

\* argSpec{types, variadic, optional}
argSpec(types, variadic, optional) ==
  [types |-> types, variadic |-> variadic, optional |-> optional]

\* functionEntry{name, arguments, handler, hasExpRef}; a handler is named by
\* the Go function it is.
functionEntry(name, arguments, handler, hasExpRef) ==
  [name |-> name, arguments |-> arguments, handler |-> handler, hasExpRef |-> hasExpRef]

\* newFunctionCaller().functionTable: a new table that holds the built-ins.
newFunctionCaller ==
  LET one(types) == argSpec(types, FALSE, FALSE)
      opt(types) == argSpec(types, FALSE, TRUE)
      rest(types) == argSpec(types, TRUE, FALSE)
      fn(name, arguments, handler) == functionEntry(name, arguments, handler, FALSE)
      str == one(<<"string">>)
      num == one(<<"number">>)
      any == one(<<"any">>)
      find == <<str, str, opt(<<"number">>), opt(<<"number">>)>>
      pad == <<str, num, opt(<<"string">>)>>
      trim == <<str, opt(<<"string">>)>>
      minmax == <<one(<<"array[number]", "array[string]">>)>>
      by == <<one(<<"array">>), one(<<"expref">>)>>
  IN [abs |-> fn("abs", <<num>>, "jpfAbs"),
      avg |-> fn("avg", <<one(<<"array[number]">>)>>, "jpfAvg"),
      ceil |-> fn("ceil", <<num>>, "jpfCeil"),
      contains |-> fn("contains", <<one(<<"array", "string">>), any>>, "jpfContains"),
      ends_with |-> fn("ends_with", <<str, str>>, "jpfEndsWith"),
      find_first |-> fn("find_first", find, "jpfFindFirst"),
      find_last |-> fn("find_last", find, "jpfFindLast"),
      floor |-> fn("floor", <<num>>, "jpfFloor"),
      join |-> fn("join", <<str, one(<<"array[string]">>)>>, "jpfJoin"),
      keys |-> fn("keys", <<one(<<"object">>)>>, "jpfKeys"),
      length |-> fn("length", <<one(<<"string", "array", "object">>)>>, "jpfLength"),
      lower |-> fn("lower", <<str>>, "jpfLower"),
      map |-> functionEntry("amp", <<one(<<"expref">>), one(<<"array">>)>>, "jpfMap", TRUE),
      max |-> fn("max", minmax, "jpfMax"),
      max_by |-> functionEntry("max_by", by, "jpfMaxBy", TRUE),
      merge |-> fn("merge", <<rest(<<"object">>)>>, "jpfMerge"),
      min |-> fn("min", minmax, "jpfMin"),
      min_by |-> functionEntry("min_by", by, "jpfMinBy", TRUE),
      not_null |-> fn("not_null", <<rest(<<"any">>)>>, "jpfNotNull"),
      pad_left |-> fn("pad_left", pad, "jpfPadLeft"),
      pad_right |-> fn("pad_right", pad, "jpfPadRight"),
      replace |-> fn("replace", <<str, str, str, opt(<<"number">>)>>, "jpfReplace"),
      reverse |-> fn("reverse", <<one(<<"array", "string">>)>>, "jpfReverse"),
      sort |-> fn("sort", <<one(<<"array[string]", "array[number]">>)>>, "jpfSort"),
      sort_by |-> functionEntry("sort_by", by, "jpfSortBy", TRUE),
      starts_with |-> fn("starts_with", <<str, str>>, "jpfStartsWith"),
      sum |-> fn("sum", <<one(<<"array[number]">>)>>, "jpfSum"),
      to_array |-> fn("to_array", <<any>>, "jpfToArray"),
      to_number |-> fn("to_number", <<any>>, "jpfToNumber"),
      to_string |-> fn("to_string", <<any>>, "jpfToString"),
      trim |-> fn("trim", trim, "jpfTrim"),
      trim_left |-> fn("trim_left", trim, "jpfTrimLeft"),
      trim_right |-> fn("trim_right", trim, "jpfTrimRight"),
      type |-> fn("type", <<any>>, "jpfType"),
      upper |-> fn("upper", <<str>>, "jpfUpper"),
      values |-> fn("values", <<one(<<"object">>)>>, "jpfValues")]

isVariadic(arguments) == \E i \in DOMAIN arguments : arguments[i].variadic

\* A minimum that counts the optional argument specs too.
getMinExpected_All(arguments) == Len(arguments)

getMinExpected(arguments) ==
  Cardinality({i \in DOMAIN arguments : ~arguments[i].optional})

getMaxExpected(arguments) ==
  IF isVariadic(arguments) THEN [max |-> 0, hasMax |-> FALSE]
  ELSE [max |-> Len(arguments), hasMax |-> TRUE]

\* argSpec.typeCheck: nil when the argument has one of the types of the spec.
typeCheck(spec, arg) ==
  LET \* toArrayNum / toArrayStr: an array whose elements all are of the type
      isArrayOf(t) == arg.t = "array" /\ \A i \in DOMAIN arg.v : arg.v[i].t = t
      ok(t) == CASE t = "number" -> arg.t = "number"
                 [] t = "string" -> arg.t = "string"
                 [] t = "array" -> arg.t = "array"
                 [] t = "object" -> arg.t = "object"
                 [] t = "array[number]" -> isArrayOf("number")
                 [] t = "array[string]" -> isArrayOf("string")
                 [] t = "any" -> TRUE
                 [] t = "expref" -> arg.t = "expref"
                 [] OTHER -> FALSE
  IN IF \E k \in DOMAIN spec.types : ok(spec.types[k]) THEN nil
     ELSE errorString("Invalid type", "", spec.types, arg.t)

\* A resolveArgs that checks the count of the arguments and not their types.
resolveArgs_NoTypeCheck(e, arguments) ==
  LET specs == e.arguments
      count == Len(arguments)
      fail(err) == [args |-> <<>>, err |-> err]
  IN IF Len(specs) = 0 THEN [args |-> arguments, err |-> nil]
     ELSE IF count < getMinExpected(specs)
          THEN fail(notEnoughArgumentsSupplied(e.name, count, getMinExpected(specs),
                                               isVariadic(specs)))
     ELSE IF getMaxExpected(specs).hasMax /\ count > getMaxExpected(specs).max
          THEN fail(tooManyArgumentsSupplied(e.name, count, getMaxExpected(specs).max))
     ELSE [args |-> arguments, err |-> nil]

\* functionEntry.resolveArgs: the arguments, or the first error found.
resolveArgs(e, arguments) ==
  LET specs == e.arguments
      count == Len(arguments)
      variadic == isVariadic(specs)
      minExpected == getMinExpected(specs)
      maxExpected == getMaxExpected(specs)
      lastArg == specs[Len(specs)]
      \* the positions the first loop checks, and those among them that fail
      checked == {i \in DOMAIN specs : ~specs[i].optional \/ i <= count}
      failed == {i \in checked : i <= count /\ IsErr(typeCheck(specs[i], arguments[i]))}
      \* the positions whose arguments[i] is an index out of range
      missing == {i \in checked : i > count}
      \* the trailing arguments the second loop checks, and those that fail
      trailing == {i \in Len(specs)..count : IsErr(typeCheck(lastArg, arguments[i]))}
      first(S) == CHOOSE i \in S : \A j \in S : i <= j
      fail(err) == [args |-> <<>>, err |-> err]
  IN IF Len(specs) = 0 THEN [args |-> arguments, err |-> nil]
     ELSE IF count < minExpected
          THEN fail(notEnoughArgumentsSupplied(e.name, count, minExpected, variadic))
     ELSE IF maxExpected.hasMax /\ count > maxExpected.max
          THEN fail(tooManyArgumentsSupplied(e.name, count, maxExpected.max))
     ELSE IF missing # {} /\ (failed = {} \/ first(missing) < first(failed))
          THEN fail(panicError)
     ELSE IF failed # {} THEN fail(typeCheck(specs[first(failed)], arguments[first(failed)]))
     ELSE IF lastArg.variadic /\ trailing # {}
          THEN fail(typeCheck(lastArg, arguments[first(trailing)]))
     ELSE [args |-> arguments, err |-> nil]

\* ------------------------------------------------------------------------
\* Interpreter
\* ------------------------------------------------------------------------
\* NotFoundError: the key that a field lookup did not find.
NotFoundError(key) == [kind |-> "NotFoundError", key |-> key]

\* expRef{ref: node}: the value of an expression reference.
expRef(node) == [t |-> "expref", ref |-> node]

\* Where a value lives: at a path (keys and 1-based indexes) inside the data
\* handed to Search, or in memory that the evaluation allocated.  A Go slice
\* that was read from the data shares its elements with the data.
NoRef == [shared |-> FALSE, path |-> <<>>]
RootRef == [shared |-> TRUE, path |-> <<>>]
Child(ref, k) == IF ref.shared THEN [ref EXCEPT !.path = Append(@, k)] ELSE ref

RECURSIVE WriteAt(_, _, _)
\* The data after the slice at the path has been overwritten with items.
WriteAt(data, path, items) ==
  IF path = <<>> THEN items
  ELSE IF data.t = "object"
       THEN Object([data.v EXCEPT ![path[1]] = WriteAt(@, Tail(path), items)])
       ELSE Array([data.v EXCEPT ![path[1]] = WriteAt(@, Tail(path), items)])

\* What an evaluation works on besides the current value: the data handed to
\* Search as it is now in memory, and the handler calls made so far.
NewState(data) == [data |-> data, invoked |-> <<>>]

\* What Execute and the handlers return: the value, where it lives, the
\* error, and the state after.
Done(val, ref, st) == [val |-> val, ref |-> ref, err |-> nil, st |-> st]
Fail(err, st) == [val |-> Null, ref |-> NoRef, err |-> err, st |-> st]

\* The value of the field of an object, and whether the object has it.
getField(value, key) ==
  IF value.t = "object" /\ key \in DOMAIN value.v
  THEN [val |-> value.v[key], found |-> TRUE]
  ELSE [val |-> Null, found |-> FALSE]

RECURSIVE stringLess(_, _)
\* ith < jth of two Go strings (byte order of the letters and digits).
stringLess(x, y) ==
  LET order == <<"0", "1", "2", "3", "4", "5", "6", "7", "8", "9",
                 "A", "B", "C", "D", "E", "F", "G", "H", "I", "J", "K", "L", "M",
                 "N", "O", "P", "Q", "R", "S", "T", "U", "V", "W", "X", "Y", "Z", "_",
                 "a", "b", "c", "d", "e", "f", "g", "h", "i", "j", "k", "l", "m",
                 "n", "o", "p", "q", "r", "s", "t", "u", "v", "w", "x", "y", "z">>
      ord(c) == CHOOSE k \in DOMAIN order : order[k] = c
  IN IF y = <<>> THEN FALSE
     ELSE IF x = <<>> THEN TRUE
     ELSE IF x[1] = y[1] THEN stringLess(Tail(x), Tail(y))
     ELSE ord(x[1]) < ord(y[1])

RECURSIVE Execute(_, _, _, _, _), resolveChildren(_, _, _, _, _, _),
          CallFunction(_, _, _, _, _), jpfMap(_, _, _, _, _, _),
          byExprLess(_, _, _, _, _), insertionSort(_, _, _, _, _),
          jpfSortBy(_, _, _, _), handle(_, _, _, _, _)

\* byExprFloat.Less / byExprString.Less (a.kind is "number" or "string"):
\* the answer, and a with hasError set when a key could not be compared.
byExprLess(intr, a, st, i, j) ==
  LET bad == [less |-> TRUE, a |-> [a EXCEPT !.hasError = TRUE]]
      second(ith, s) ==
        IF IsErr(s.err) \/ s.val.t # a.kind THEN bad
        ELSE [less |-> IF a.kind = "number" THEN ith.v < s.val.v
                       ELSE stringLess(ith.v, s.val.v),
              a |-> a]
      first(f) ==
        IF IsErr(f.err) \/ f.val.t # a.kind THEN bad
        ELSE second(f.val, Execute(intr, a.node, a.items[j + 1], NoRef, st))
  IN first(Execute(intr, a.node, a.items[i + 1], NoRef, st))

\* sort.Stable(a) on fewer than 20 items: the insertion sort
\*   for i := 1; i < n; i++ { for j := i; j > 0 && Less(j, j-1); j-- { Swap(j, j-1) } }
\* from the position (i, j) on.  Swap exchanges the items of a in place.
insertionSort(intr, a, st, i, j) ==
  LET swapped(b) == [b EXCEPT !.items[j + 1] = b.items[j], !.items[j] = b.items[j + 1]]
      tested(l) == IF l.less THEN insertionSort(intr, swapped(l.a), st, i, j - 1)
                   ELSE insertionSort(intr, l.a, st, i + 1, i + 1)
  IN IF i >= Len(a.items) THEN a
     ELSE IF j > 0 THEN tested(byExprLess(intr, a, st, j, j - 1))
     ELSE insertionSort(intr, a, st, i + 1, i + 1)

\* jpfSortBy; arguments[1] is the interpreter, [2] the array, [3] the expref.
\* The items sorted are the ones of the array that was passed in.
jpfSortBy(intr, arguments, refs, st) ==
  LET arr == arguments[2]
      node == arguments[3].ref
      inPlace(items) ==
        IF refs[2].shared THEN [st EXCEPT !.data = WriteAt(@, refs[2].path, Array(items))]
        ELSE st
      sorted(a) ==
        IF a.hasError
        THEN Fail(errorString("error in sort_by comparison", "", 0, 0), inPlace(a.items))
        ELSE Done(Array(a.items), refs[2], inPlace(a.items))
      started(start) ==
        IF IsErr(start.err) THEN Fail(start.err, st)
        ELSE IF start.val.t \in {"number", "string"}
             THEN sorted(insertionSort(intr,
                    [node |-> node, kind |-> start.val.t, items |-> arr.v, hasError |-> FALSE],
                    st, 1, 1))
             ELSE Fail(errorString("invalid type, must be number of string", "", 0, 0), st)
  IN IF Len(arr.v) = 0 \/ Len(arr.v) = 1 THEN Done(arr, refs[2], st)
     ELSE started(Execute(intr, node, arr.v[1], Child(refs[2], 1), st))

\* jpfMap from the element i on; arguments[1] is the interpreter, [2] the
\* expref, [3] the array.
jpfMap(intr, arguments, refs, st, i, mapped) ==
  LET arr == arguments[3].v
      element(c) == IF IsErr(c.err) THEN Fail(c.err, c.st)
                    ELSE jpfMap(intr, arguments, refs, c.st, i + 1, Append(mapped, c.val))
  IN IF i > Len(arr) THEN Done(Array(mapped), NoRef, st)
     ELSE element(Execute(intr, arguments[2].ref, arr[i], Child(refs[3], i), st))

\* x / y of two float64 that hold integers, as a number: NaN for 0/0, an
\* infinity for another number divided by 0, else the quotient, which is an
\* integer or a fraction in lowest terms (the rounding to the nearest
\* float64 is left out).
divide(x, y) ==
  LET g == CHOOSE d \in 1..Max(y, 1) :
             /\ x % d = 0 /\ y % d = 0
             /\ \A e \in 1..Max(y, 1) : x % e = 0 /\ y % e = 0 => e <= d
  IN IF y = 0
     THEN [t |-> "number", special |-> IF x = 0 THEN "NaN" ELSE IF x > 0 THEN "+Inf" ELSE "-Inf"]
     ELSE IF y = g THEN Number(x \div y)
     ELSE [t |-> "number", numerator |-> x \div g, denominator |-> y \div g]

\* jpfAvg(arguments)
jpfAvg(arguments) ==
  LET args == arguments[1].v
      RECURSIVE sum(_)
      sum(i) == IF i = 0 THEN 0 ELSE sum(i - 1) + args[i].v
  IN [val |-> divide(sum(Len(args)), Len(args)), err |-> nil]

\* strings.Index(s, substr) and strings.LastIndex(s, substr)
stringsIndex(s, substr, last) ==
  LET at == {i \in 0..(Len(s) - Len(substr)) : SubSeq(s, i + 1, i + Len(substr)) = substr}
  IN IF at = {} THEN 0 - 1
     ELSE CHOOSE i \in at : \A j \in at : IF last THEN j <= i ELSE i <= j

\* jpfContains(arguments).  item == el compares two interface{} values: it is
\* false for values of different dynamic types, and a panic for two values of
\* the same dynamic type when that type is a slice or a map.
jpfContains(arguments) ==
  LET search == arguments[1]
      el == arguments[2]
      uncomparable == {i \in DOMAIN search.v :
                         search.v[i].t = el.t /\ el.t \in {"array", "object"}}
      equal == {i \in DOMAIN search.v : search.v[i] = el}
  IN IF search.t = "string"
     THEN [val |-> Bool(el.t = "string" /\ stringsIndex(search.v, el.v, FALSE) # 0 - 1),
           err |-> nil]
     ELSE IF \E i \in uncomparable : \A j \in equal : i < j
          THEN [val |-> Null, err |-> panicError]
          ELSE [val |-> Bool(equal # {}), err |-> nil]

\* jpfFindImpl(name, arguments, find), find being strings.Index (find_first)
\* or strings.LastIndex (find_last).  toInteger of a number that holds an
\* integer is that integer; subject[start:end] with start > end is a panic.
jpfFindImpl(name, arguments, find) ==
  LET subject == arguments[1].v
      substr == arguments[2].v
      start == IF Len(arguments) > 2 THEN Max(0, arguments[3].v) ELSE 0
      end == IF Len(arguments) > 3 THEN Min(arguments[4].v, Len(subject)) ELSE Len(subject)
      found(offset) == IF offset = 0 - 1 THEN [val |-> Null, err |-> nil]
                       ELSE [val |-> Number(start + offset), err |-> nil]
  IN IF Len(subject) = 0 \/ Len(substr) = 0 THEN [val |-> Null, err |-> nil]
     ELSE IF start > end THEN [val |-> Null, err |-> panicError]
     ELSE found(stringsIndex(Slice0(subject, start, end), substr, find = "strings.LastIndex"))

\* jpfPadImpl(name, arguments, pad), pad being padLeft or padRight, which
\* repeat the pad max(0, width-len(s)) times.  toPositiveInteger of a number
\* that holds a non-negative integer is that integer.
jpfPadImpl(name, arguments, pad) ==
  LET s == arguments[1].v
      width == arguments[2].v
      chars == IF Len(arguments) > 2 THEN arguments[3].v ELSE <<" ">>
      RECURSIVE repeat(_)
      repeat(n) == IF n = 0 THEN <<>> ELSE chars \o repeat(n - 1)
      padding == repeat(Max(0, width - Len(s)))
  IN IF Len(chars) > 1
     THEN [val |-> Null, err |-> errorString("invalid value, pad", name, 1, Len(chars))]
     ELSE [val |-> String(IF pad = "padLeft" THEN padding \o s ELSE s \o padding),
           err |-> nil]

RECURSIVE bestBy(_, _, _, _, _, _, _)
\* The loop of jpfMaxBy and jpfMinBy over arr[1:] from the item i on (1-based);
\* best is the best item and its key, kind the type of the key of arr[0].
bestBy(intr, node, arr, kind, max, i, best) ==
  LET better(key) ==
        IF kind = "number"
        THEN (IF max THEN key.v > best.val.v ELSE key.v < best.val.v)
        ELSE (IF max THEN stringLess(best.val.v, key.v)
              ELSE stringLess(key.v, best.val.v))
      item(result) ==
        IF IsErr(result.err) THEN Fail(result.err, result.st)
        ELSE IF result.val.t # kind
             THEN Fail(errorString("invalid type, must be " \o kind, "", 0, 0), result.st)
             ELSE bestBy(intr, node, arr, kind, max, i + 1,
                         IF better(result.val)
                         THEN [val |-> result.val, item |-> arr[i], st |-> result.st]
                         ELSE [best EXCEPT !.st = result.st])
  IN IF i > Len(arr) THEN Done(best.item, NoRef, best.st)
     ELSE item(Execute(intr, node, arr[i], NoRef, best.st))

\* jpfMaxBy (max) and jpfMinBy; arguments[1] is the interpreter, [2] the
\* array, [3] the expref.
jpfMaxBy(intr, arguments, st, max) ==
  LET arr == arguments[2].v
      node == arguments[3].ref
      started(start) ==
        IF IsErr(start.err) THEN Fail(start.err, start.st)
        ELSE IF start.val.t \in {"number", "string"}
             THEN bestBy(intr, node, arr, start.val.t, max, 2,
                         [val |-> start.val, item |-> arr[1], st |-> start.st])
             ELSE Fail(errorString("invalid type, must be number of string", "", 0, 0),
                       start.st)
  IN IF Len(arr) = 0 THEN Done(Null, NoRef, st)
     ELSE IF Len(arr) = 1 THEN Done(arr[1], NoRef, st)
     ELSE started(Execute(intr, node, arr[1], NoRef, st))

jpfMinBy(intr, arguments, st) == jpfMaxBy(intr, arguments, st, FALSE)

\* A handler applied to the resolved arguments.  The built-ins that are
\* modelled compute their result; every other handler returns a value that
\* names it.  The built-ins assert the types of their arguments
\* (arguments[0].(float64)): an argument of another type is a panic.
handle(intr, handler, arguments, refs, st) ==
  LET types == [i \in DOMAIN arguments |-> arguments[i].t]
  IN CASE handler = "jpfMap" ->
            IF types = <<"interpreter", "expref", "array">>
            THEN jpfMap(intr, arguments, refs, st, 1, <<>>)
            ELSE Fail(panicError, st)
       [] handler = "jpfSortBy" ->
            IF types = <<"interpreter", "array", "expref">>
            THEN jpfSortBy(intr, arguments, refs, st)
            ELSE Fail(panicError, st)
       [] handler \in {"jpfMaxBy", "jpfMinBy"} ->
            IF types = <<"interpreter", "array", "expref">>
            THEN (IF handler = "jpfMaxBy" THEN jpfMaxBy(intr, arguments, st, TRUE)
                  ELSE jpfMinBy(intr, arguments, st))
            ELSE Fail(panicError, st)
       [] handler = "jpfAbs" ->
            IF types = <<"number">>
            THEN Done(Number(IF arguments[1].v < 0 THEN 0 - arguments[1].v
                             ELSE arguments[1].v), NoRef, st)
            ELSE Fail(panicError, st)
       [] handler \in {"jpfAvg", "jpfContains", "jpfFindFirst", "jpfFindLast",
                        "jpfPadLeft", "jpfPadRight"} ->
            LET returned(r) == IF IsErr(r.err) THEN Fail(r.err, st)
                               ELSE Done(r.val, NoRef, st)
            IN returned(CASE handler = "jpfAvg" -> jpfAvg(arguments)
                          [] handler = "jpfContains" -> jpfContains(arguments)
                          [] handler = "jpfFindFirst" ->
                               jpfFindImpl("find_first", arguments, "strings.Index")
                          [] handler = "jpfFindLast" ->
                               jpfFindImpl("find_last", arguments, "strings.LastIndex")
                          [] handler = "jpfPadLeft" ->
                               jpfPadImpl("pad_left", arguments, "padLeft")
                          [] handler = "jpfPadRight" ->
                               jpfPadImpl("pad_right", arguments, "padRight"))
       [] OTHER -> Done([t |-> "result", of |-> handler], NoRef, st)

\* functionCaller.CallFunction(name, arguments, intr)
CallFunction(intr, name, arguments, refs, st) ==
  LET entry == intr.fCall[name]
      this == [t |-> "interpreter", id |-> intr.id]
      invoke(args, argRefs) ==
        handle(intr, entry.handler, args, argRefs,
               [st EXCEPT !.invoked = Append(@, [handler |-> entry.handler, arguments |-> args])])
      resolved(r) ==
        IF IsErr(r.err) THEN Fail(r.err, st)
        ELSE IF entry.hasExpRef THEN invoke(<<this>> \o r.args, <<NoRef>> \o refs)
        ELSE invoke(r.args, refs)
  IN IF name \notin DOMAIN intr.fCall
     THEN Fail(errorString("unknown function: ", name, 0, 0), st)
     ELSE resolved(resolveArgs(entry, arguments))

\* The arguments of a function expression, evaluated in order; the first
\* error ends the evaluation.
resolveChildren(intr, children, value, ref, st, acc) ==
  LET element(c) ==
        IF IsErr(c.err) THEN [args |-> <<>>, refs |-> <<>>, err |-> c.err, st |-> c.st]
        ELSE resolveChildren(intr, Tail(children), value, ref, c.st,
                             [args |-> Append(acc.args, c.val), refs |-> Append(acc.refs, c.ref)])
  IN IF children = <<>> THEN [args |-> acc.args, refs |-> acc.refs, err |-> nil, st |-> st]
     ELSE element(Execute(intr, Head(children), value, ref, st))

\* IsFalse(value): null, false, and the empty string, array and object.
IsFalse(value) ==
  \/ value.t = "null"
  \/ value = Bool(FALSE)
  \/ value.t \in {"array", "string"} /\ value.v = <<>>
  \/ value.t = "object" /\ DOMAIN value.v = {}

\* An ObjsEqual for which nil equals nothing.
ObjsEqual_NilIsUnequal(left, right) ==
  IF left.t = "null" \/ right.t = "null" THEN FALSE
  ELSE left = right

\* ObjsEqual(left, right): nil equals nil only; else reflect.DeepEqual.
ObjsEqual(left, right) ==
  IF left.t = "null" \/ right.t = "null" THEN left.t = right.t
  ELSE left = right

\* treeInterpreter.Execute(node, value)
Execute(intr, node, value, ref, st) ==
  LET field(f) == IF f.found THEN Done(f.val, Child(ref, node.Value), st)
                  ELSE Fail(NotFoundError(node.Value), st)
      right(l) == IF IsErr(l.err) THEN Fail(l.err, l.st)
                  ELSE IF l.val.t = "null" THEN Done(Null, NoRef, l.st)
                  ELSE Execute(intr, node.Children[2], l.val, l.ref, l.st)
      apply(a) == IF IsErr(a.err) THEN Fail(a.err, a.st)
                  ELSE CallFunction(intr, node.Value, a.args, a.refs, a.st)
      \* an operand of a comparison: a NotFound is absorbed and compares as null
      operand(c) == IF c.err.kind = "NotFoundError" THEN Done(Null, NoRef, c.st) ELSE c
      ordered(l, r) ==
        IF l.val.t # "number" \/ r.val.t # "number" THEN Fail(NotFoundError(""), r.st)
        ELSE Done(Bool(CASE node.Value = "tLT" -> l.val.v < r.val.v
                         [] node.Value = "tLTE" -> l.val.v <= r.val.v
                         [] node.Value = "tGT" -> l.val.v > r.val.v
                         [] node.Value = "tGTE" -> l.val.v >= r.val.v), NoRef, r.st)
      compared(l, r) ==
        IF IsErr(r.err) THEN Fail(r.err, r.st)
        ELSE IF node.Value = "tEQ" THEN Done(Bool(ObjsEqual(l.val, r.val)), NoRef, r.st)
        ELSE IF node.Value = "tNE" THEN Done(Bool(~ObjsEqual(l.val, r.val)), NoRef, r.st)
        ELSE ordered(l, r)
      compare(l) ==
        IF IsErr(l.err) THEN Fail(l.err, l.st)
        ELSE compared(l, operand(Execute(intr, node.Children[2], value, ref, l.st)))
      \* the elements of a filter projection from the element i on
      RECURSIVE filter(_, _, _, _)
      filter(items, i, collected, s) ==
        LET projected(r) ==
              IF r.err.kind = "NotFoundError" \/ (~IsErr(r.err) /\ r.val.t = "null")
              THEN filter(items, i + 1, collected, r.st)
              ELSE IF IsErr(r.err) THEN Fail(r.err, r.st)
              ELSE filter(items, i + 1, Append(collected, r.val), r.st)
            tested(c) ==
              IF IsErr(c.err) /\ c.err.kind # "NotFoundError" THEN Fail(c.err, c.st)
              ELSE IF IsErr(c.err) \/ IsFalse(c.val) THEN filter(items, i + 1, collected, c.st)
              ELSE projected(Execute(intr, node.Children[2], items.val.v[i],
                                     Child(items.ref, i), c.st))
        IN IF i > Len(items.val.v) THEN Done(Array(collected), NoRef, s)
           ELSE tested(Execute(intr, node.Children[3], items.val.v[i],
                               Child(items.ref, i), s))
      filtered(l) == IF IsErr(l.err) THEN Fail(l.err, l.st)
                     ELSE IF l.val.t # "array" THEN Fail(NotFoundError(""), l.st)
                     ELSE filter(l, 1, <<>>, l.st)
  IN CASE node.NodeType \in {"ASTIdentity", "ASTCurrentNode"} -> Done(value, ref, st)
       [] node.NodeType = "ASTField" -> field(getField(value, node.Value))
       [] node.NodeType = "ASTLiteral" -> Done(node.Value, NoRef, st)
       [] node.NodeType = "ASTSubexpression" ->
            right(Execute(intr, node.Children[1], value, ref, st))
       [] node.NodeType = "ASTComparator" ->
            compare(operand(Execute(intr, node.Children[1], value, ref, st)))
       [] node.NodeType = "ASTFilterProjection" ->
            filtered(Execute(intr, node.Children[1], value, ref, st))
       [] node.NodeType = "ASTExpRef" -> Done(expRef(node.Children[1]), NoRef, st)
       [] node.NodeType = "ASTFunctionExpression" ->
            apply(resolveChildren(intr, node.Children, value, ref, st,
                                  [args |-> <<>>, refs |-> <<>>]))
       [] OTHER -> Fail(panicError, st)

\* newInterpreter(data) for a function table: the root is the data, no scope
\* is open.  The instance gets the smallest identity that no live instance has.
newInterpreter(live, data, fCall) ==
  [id |-> CHOOSE i \in 1..(Cardinality(live) + 1) : i \notin live /\ \A j \in 1..(i - 1) : j \in live,
   root |-> data, scopes |-> <<>>, fCall |-> fCall]

\* ------------------------------------------------------------------------
\* User-defined functions (src/unnamed/part_007)
\* ------------------------------------------------------------------------
RECURSIVE Split(_, _)
\* strings.Split(s, sep).  A string is given as the sequence of its lexemes:
\* the separators "," and "|" and the runs of other characters between them.
Split(s, sep) ==
  LET at == {i \in DOMAIN s : s[i] = sep}
      i == CHOOSE k \in at : \A j \in at : k <= j
  IN IF at = {} THEN <<s>>
     ELSE <<SubSeq(s, 1, i - 1)>> \o Split(SubSeq(s, i + 1, Len(s)), sep)

jpTypes ==
  {"number", "string", "array", "object", "array[number]", "array[string]", "expref", "any"}

\* A RegisterFunction that keeps the entry a name already has.
RegisterFunction_FirstWins(queries, q, name, args, variadic, handler) ==
  LET positions == Split(args, ",")
      types(i) == LET alternatives == Split(positions[i], "|")
                  IN [k \in DOMAIN alternatives |-> Str(alternatives[k])]
      arguments == [i \in DOMAIN positions |->
                      argSpec(types(i), variadic /\ i = Len(positions), FALSE)]
      hasExpRef == \E i \in DOMAIN positions : \E k \in DOMAIN types(i) : types(i)[k] = "expref"
  IN IF \E i \in DOMAIN positions : \E k \in DOMAIN types(i) : types(i)[k] \notin jpTypes
     THEN [queries |-> queries, err |-> errorString("unknown argument type: ", "", 0, 0)]
     ELSE IF name \in DOMAIN queries[q].fCall THEN [queries |-> queries, err |-> nil]
     ELSE [queries |-> [queries EXCEPT ![q].fCall =
                          MapSet(@, name, functionEntry(name, arguments, handler, hasExpRef))],
           err |-> nil]

\* A RegisterFunction that writes to a table that all compiled queries share.
RegisterFunction_Shared(queries, q, name, args, variadic, handler) ==
  LET positions == Split(args, ",")
      types(i) == LET alternatives == Split(positions[i], "|")
                  IN [k \in DOMAIN alternatives |-> Str(alternatives[k])]
      arguments == [i \in DOMAIN positions |->
                      argSpec(types(i), variadic /\ i = Len(positions), FALSE)]
      hasExpRef == \E i \in DOMAIN positions : \E k \in DOMAIN types(i) : types(i)[k] = "expref"
      entry == functionEntry(name, arguments, handler, hasExpRef)
  IN IF \E i \in DOMAIN positions : \E k \in DOMAIN types(i) : types(i)[k] \notin jpTypes
     THEN [queries |-> queries, err |-> errorString("unknown argument type: ", "", 0, 0)]
     ELSE [queries |-> [o \in DOMAIN queries |->
                          IF queries[o].compiled
                          THEN [queries[o] EXCEPT !.fCall = MapSet(@, name, entry)]
                          ELSE queries[o]],
           err |-> nil]

\* A RegisterFunction that stores the entry and then returns the error of an
\* unknown type.
RegisterFunction_WritesFirst(queries, q, name, args, variadic, handler) ==
  LET positions == Split(args, ",")
      types(i) == LET alternatives == Split(positions[i], "|")
                  IN [k \in DOMAIN alternatives |-> Str(alternatives[k])]
      arguments == [i \in DOMAIN positions |->
                      argSpec(types(i), variadic /\ i = Len(positions), FALSE)]
      hasExpRef == \E i \in DOMAIN positions : \E k \in DOMAIN types(i) : types(i)[k] = "expref"
      written == [queries EXCEPT ![q].fCall =
                    MapSet(@, name, functionEntry(name, arguments, handler, hasExpRef))]
  IN IF \E i \in DOMAIN positions : \E k \in DOMAIN types(i) : types(i)[k] \notin jpTypes
     THEN [queries |-> written, err |-> errorString("unknown argument type: ", "", 0, 0)]
     ELSE [queries |-> written, err |-> nil]

\* jp.RegisterFunction(name, args, variadic, handler), jp being the compiled
\* query q of queries: the queries after the call, and the error returned.
RegisterFunction(queries, q, name, args, variadic, handler) ==
  LET positions == Split(args, ",")
      \* the types of each position, in the order of the string
      types == [i \in DOMAIN positions |->
                  LET alternatives == Split(positions[i], "|")
                  IN [k \in DOMAIN alternatives |-> Str(alternatives[k])]]
      unknown == UNION {{<<i, k>> : k \in {k \in DOMAIN types[i] : types[i][k] \notin jpTypes}} :
                          i \in DOMAIN types}
      firstUnknown == CHOOSE p \in unknown : \A o \in unknown :
                        p[1] < o[1] \/ (p[1] = o[1] /\ p[2] <= o[2])
      hasExpRef == \E i \in DOMAIN types : \E k \in DOMAIN types[i] : types[i][k] = "expref"
      arguments == [i \in DOMAIN types |->
                      argSpec(types[i], variadic /\ i = Len(types), FALSE)]
  IN IF unknown # {}
     THEN [queries |-> queries,
           err |-> errorString("unknown argument type: ",
                               types[firstUnknown[1]][firstUnknown[2]], 0, 0)]
     ELSE [queries |-> [queries EXCEPT ![q].fCall =
                          MapSet(@, name, functionEntry(name, arguments, handler, hasExpRef))],
           err |-> nil]

\* ------------------------------------------------------------------------
\* State
\* ------------------------------------------------------------------------
VARIABLES
  pc,       \* "typing": an expression text is being entered; "compiled": Compile has returned
  input,    \* the expression text handed to Compile
  parser,   \* the Parser that Compile created: expression, tokens, index
  ast,      \* the ASTNode Parse returned
  err,      \* the error Parse returned
  jp,       \* the compiled queries (*JMESPath) of the program: ast and function table
  registry, \* per compiled query, the RegisterFunction calls that succeeded, in order
  last,     \* the latest call of the API: its arguments and what it returned
  intrs,    \* the interpreter instances of the Search calls that are running
  calls,    \* per goroutine, the Search call it is in
  fn,       \* a call of a function of the package: name, arguments, and what it returned
  scopes    \* a scope stack (*scopes), and what the latest call of getValue returned

vars == <<pc, input, parser, ast, err, jp, registry, last, intrs, calls, fn, scopes>>

\* The runes an expression text is typed from.
Alphabet == {"[", "]", "0", ":", "-", "a", "\"", "\\", Backquote, ".", "(", ")"}

\* The compiled queries the program holds, and the goroutines that search.
QueryIds == {1, 2}
Threads == {1, 2}

\* The expressions that are compiled and searched:
\*   sort_by(@,&a)  map(&a,@)  a.b  abs(@)  f(@)  f(@,@)  f(@,'s')  f(&a,@)  f()
SortByExpr == <<"s", "o", "r", "t", "_", "b", "y", "(", "@", ",", "&", "a", ")">>
MapExpr == <<"m", "a", "p", "(", "&", "a", ",", "@", ")">>
FieldExpr == <<"a", ".", "b">>
AbsExpr == <<"a", "b", "s", "(", "@", ")">>
UserExprs ==
  {<<"f", "(", "@", ")">>, <<"f", "(", "@", ",", "@", ")">>,
   <<"f", "(", "@", ",", "'", "s", "'", ")">>, <<"f", "(", "&", "a", ",", "@", ")">>,
   <<"f", "(", ")">>}
BuiltinExprs == {SortByExpr, MapExpr, FieldExpr, AbsExpr}
PackageExpressions == {AbsExpr, <<"f", "(", "@", ")">>}

\* The data that is searched:
\*   "s"  ["s"]  -1  [{"a":2},{"a":1}]  [{"a":1},{}]  {"a":{"b":null}}  {"a":{}}
\* The first three are the ones that the calls of f and abs are searched on.
ArgumentDocuments == {String(<<"s">>), Array(<<String(<<"s">>)>>), Number(0 - 1)}
Documents ==
  LET obj(k, v) == Object(MapSet(EmptyMap, k, v))
  IN ArgumentDocuments \cup
     {Array(<<obj("a", Number(2)), obj("a", Number(1))>>),
      Array(<<obj("a", Number(1)), Object(EmptyMap)>>),
      obj("a", obj("b", Null)),
      obj("a", Object(EmptyMap))}

\* The RegisterFunction calls that are made: name, signature string,
\* variadic, handler.  The signature strings are
\*   number   string|array[string],string   expref,array   number,bogus
\* and the empty string.
Registrations ==
  LET reg(name, args, variadic, handler) ==
        [name |-> name, args |-> args, variadic |-> variadic, handler |-> handler]
      strings == <<"string", "|", "array[string]", ",", "string">>
  IN {reg("f", <<"number">>, FALSE, "h1"),
      reg("f", <<"number">>, TRUE, "h2"),
      reg("f", strings, FALSE, "h1"),
      reg("f", <<"expref", ",", "array">>, FALSE, "h2"),
      reg("abs", <<"number">>, FALSE, "h1"),
      reg("f", <<"number", ",", "bogus">>, TRUE, "h2"),
      reg("f", <<>>, FALSE, "h2")}
MaxRegistrations == 2

\* The arguments a built-in is called with.
MaxArgs == 5
ArgLists ==
  LET values == {Number(1), String(<<"s">>), Array(<<>>), Object(EmptyMap)}
  IN UNION {[1..n -> values] : n \in 0..MaxArgs}

\* No query is compiled, no call of the API is made, no goroutine searches.
InitSearch ==
  /\ jp = [q \in QueryIds |-> [compiled |-> FALSE]]
  /\ registry = [q \in QueryIds |-> <<>>]
  /\ last = [op |-> "none"]
  /\ intrs = [i \in {} |-> Null]
  /\ calls = [t \in Threads |-> [pc |-> "idle"]]
  /\ scopes = [stack |-> <<>>, got |-> [identifier |-> ""], panicked |-> FALSE]

\* ------------------------------------------------------------------------
\* Compile (src/errors.go, api part)
\* ------------------------------------------------------------------------
InitCompile ==
  /\ pc = "typing"
  /\ input = <<>>
  /\ parser = NewParser
  /\ ast = EmptyNode
  /\ err = nil
  /\ InitSearch
  /\ fn = [pc |-> "idle"]

\* The caller extends the expression text by one rune.
TypeRune(r) ==
  /\ pc = "typing"
  /\ Len(input) < MaxLen
  /\ input' = Append(input, r)
  /\ UNCHANGED <<scopes, pc, parser, ast, err, jp, registry, last, intrs, calls, fn>>

\* Compile(expression): parser := NewParser(); ast, err := parser.Parse(expression)
Compile ==
  /\ pc = "typing"
  /\ \E r \in {Parse(NewParser, input)} :
        /\ parser' = r.p
        /\ ast' = r.node
        /\ err' = r.err
  /\ pc' = "compiled"
  /\ UNCHANGED <<scopes, input, jp, registry, last, intrs, calls, fn>>

NextCompile ==
  \/ \E r \in Alphabet : TypeRune(r)
  \/ Compile

SpecCompile == InitCompile /\ [][NextCompile]_vars

\* ------------------------------------------------------------------------
\* Compile, RegisterFunction, Search (src/errors.go, src/unnamed/part_007)
\* ------------------------------------------------------------------------
Init ==
  /\ pc = "compiled"
  /\ input = <<>>
  /\ parser = NewParser
  /\ ast = EmptyNode
  /\ err = nil
  /\ InitSearch
  /\ fn = [pc |-> "idle"]

\* jp, err := Compile(expression), jp being kept as the query q.  The query
\* gets a function table of its own that holds the built-ins.
CompileQuery(q, expression) ==
  /\ ~jp[q].compiled
  /\ \E r \in {Parse(NewParser, expression)} :
        /\ jp' = IF IsErr(r.err) THEN jp
                 ELSE [jp EXCEPT ![q] = [compiled |-> TRUE, ast |-> r.node,
                                         fCall |-> newFunctionCaller]]
        /\ last' = [op |-> "Compile", q |-> q, expression |-> expression, err |-> r.err]
  /\ UNCHANGED <<scopes, pc, input, parser, ast, err, registry, intrs, calls, fn>>

\* err := jp.RegisterFunction(name, args, variadic, handler)
Register(q, name, args, variadic, handler) ==
  /\ jp[q].compiled
  /\ Len(registry[1]) + Len(registry[2]) < MaxRegistrations
  /\ \E r \in {RegisterFunction(jp, q, name, args, variadic, handler)} :
        /\ jp' = r.queries
        /\ registry' = IF IsErr(r.err) THEN registry
                       ELSE [registry EXCEPT ![q] = Append(@,
                               [name |-> name, args |-> args, variadic |-> variadic,
                                handler |-> handler])]
        /\ last' = [op |-> "RegisterFunction", q |-> q, name |-> name, args |-> args,
                    variadic |-> variadic, handler |-> handler, err |-> r.err]
  /\ UNCHANGED <<scopes, pc, input, parser, ast, err, intrs, calls, fn>>

\* What a Search call returned: the result and the error, with the data as
\* it is in memory after the call and the handlers the call invoked.
Returned(op, q, expression, data, intr, r) ==
  [op |-> op, q |-> q, expression |-> expression, data |-> data, intr |-> intr,
   val |-> r.val, err |-> r.err, after |-> r.st.data, invoked |-> r.st.invoked]

\* A Search that returns null and a nil error where the evaluation ends with
\* a NotFoundError.
JMESPathSearch_NotFoundIsNull(query, live, data) ==
  LET executed(intr) ==
        LET r == Execute(intr, query.ast, data, RootRef, NewState(data))
        IN [intr |-> intr,
            r |-> IF r.err.kind = "NotFoundError" THEN Done(Null, NoRef, r.st) ELSE r]
  IN executed(newInterpreter(live, data, query.fCall))

\* jp.Search(data): intr := newInterpreter(data); return intr.Execute(jp.ast, data)
JMESPathSearch(query, live, data) ==
  LET executed(intr) == [intr |-> intr,
                         r |-> Execute(intr, query.ast, data, RootRef, NewState(data))]
  IN executed(newInterpreter(live, data, query.fCall))

Search(q, data) ==
  /\ jp[q].compiled
  /\ \E s \in {JMESPathSearch(jp[q], {}, data)} :
        last' = Returned("Search", q, <<>>, data, s.intr.id, s.r)
  /\ UNCHANGED <<scopes, pc, input, parser, ast, err, jp, registry, intrs, calls, fn>>

\* Search(expression, data) of the package: a new interpreter, whose function
\* table holds the built-ins, executes the parsed expression.
PackageSearch(expression, data) ==
  /\ \E p \in {Parse(NewParser, expression)} :
        IF IsErr(p.err)
        THEN last' = Returned("PackageSearch", 0, expression, data, 0, Fail(p.err, NewState(data)))
        ELSE \E s \in {JMESPathSearch([ast |-> p.node, fCall |-> newFunctionCaller], {}, data)} :
                last' = Returned("PackageSearch", 0, expression, data, s.intr.id, s.r)
  /\ UNCHANGED <<scopes, pc, input, parser, ast, err, jp, registry, intrs, calls, fn>>

Next ==
  \/ \E q \in QueryIds : \E expression \in BuiltinExprs : CompileQuery(q, expression)
  \/ \E q \in QueryIds : \E data \in Documents : Search(q, data)
  \/ \E expression \in PackageExpressions \cup {SortByExpr} : \E data \in Documents :
        PackageSearch(expression, data)

Spec == Init /\ [][Next]_vars

\* The program registers functions on its compiled queries; the first query
\* calls f or abs, the second one calls f.
NextRegister ==
  \/ \E expression \in UserExprs \cup {AbsExpr} : CompileQuery(1, expression)
  \/ CompileQuery(2, <<"f", "(", "@", ")">>)
  \/ \E q \in QueryIds : \E r \in Registrations :
        Register(q, r.name, r.args, r.variadic, r.handler)
  \/ \E q \in QueryIds : \E data \in ArgumentDocuments : Search(q, data)
  \/ \E expression \in PackageExpressions : PackageSearch(expression, Number(0 - 1))

SpecRegister == Init /\ [][NextRegister]_vars

\* ------------------------------------------------------------------------
\* Search calls of several goroutines on compiled queries
\* ------------------------------------------------------------------------
\* A Search that uses an interpreter that the compiled query keeps (an intr
\* member of JMESPath) and sets its root to the data of the call.
SearchNewInterpreter_Member(t, q, data) ==
  /\ calls[t].pc = "idle"
  /\ jp[q].compiled
  /\ intrs' = MapSet(intrs, q, [id |-> q, root |-> data, scopes |-> <<>>,
                                fCall |-> jp[q].fCall])
  /\ calls' = [calls EXCEPT ![t] = [pc |-> "executing", q |-> q, data |-> data, intr |-> q]]
  /\ UNCHANGED <<scopes, pc, input, parser, ast, err, jp, registry, last, fn>>

\* The first statement of jp.Search(data): intr := newInterpreter(data)
SearchNewInterpreter(t, q, data) ==
  /\ calls[t].pc = "idle"
  /\ jp[q].compiled
  /\ \E intr \in {newInterpreter(DOMAIN intrs, data, jp[q].fCall)} :
        /\ intrs' = MapSet(intrs, intr.id, intr)
        /\ calls' = [calls EXCEPT ![t] = [pc |-> "executing", q |-> q, data |-> data,
                                          intr |-> intr.id]]
  /\ UNCHANGED <<scopes, pc, input, parser, ast, err, jp, registry, last, fn>>

\* The second statement: return intr.Execute(jp.ast, data).  The instance is
\* garbage once the call has returned.
SearchExecute(t) ==
  /\ calls[t].pc = "executing"
  /\ \E r \in {Execute(intrs[calls[t].intr], jp[calls[t].q].ast, calls[t].data, RootRef,
                       NewState(calls[t].data))} :
        calls' = [calls EXCEPT ![t] = [pc |-> "returned", q |-> calls[t].q,
                                       data |-> calls[t].data, val |-> r.val, err |-> r.err]]
  /\ intrs' = [i \in DOMAIN intrs \ {calls[t].intr} |-> intrs[i]]
  /\ UNCHANGED <<scopes, pc, input, parser, ast, err, jp, registry, last, fn>>

\* The caller has the result and may search again.
SearchReturned(t) ==
  /\ calls[t].pc = "returned"
  /\ calls' = [calls EXCEPT ![t] = [pc |-> "idle"]]
  /\ UNCHANGED <<scopes, pc, input, parser, ast, err, jp, registry, last, intrs, fn>>

NextConcurrent ==
  \/ \E q \in QueryIds : \E expression \in BuiltinExprs : CompileQuery(q, expression)
  \/ \E t \in Threads, q \in QueryIds, data \in Documents : SearchNewInterpreter(t, q, data)
  \/ \E t \in Threads : SearchExecute(t)
  \/ \E t \in Threads : SearchReturned(t)

SpecConcurrent == Init /\ [][NextConcurrent]_vars

\* ------------------------------------------------------------------------
\* Calls of the built-ins (src/unnamed/part_001)
\* ------------------------------------------------------------------------
InitCall ==
  /\ pc = "compiled"
  /\ input = <<>>
  /\ parser = NewParser
  /\ ast = EmptyNode
  /\ err = nil
  /\ InitSearch
  /\ fn \in {[pc |-> "ready", name |-> name, arguments |-> arguments] :
               name \in DOMAIN newFunctionCaller, arguments \in ArgLists}

\* intr.fCall.CallFunction(name, arguments, intr) on the table of the built-ins
CallBuiltin ==
  /\ fn.pc = "ready"
  /\ \E r \in {CallFunction(newInterpreter({}, Null, newFunctionCaller), fn.name,
                            fn.arguments, [i \in DOMAIN fn.arguments |-> NoRef],
                            NewState(Null))} :
        fn' = [pc |-> "returned", name |-> fn.name, arguments |-> fn.arguments,
               val |-> r.val, err |-> r.err, invoked |-> r.st.invoked]
  /\ UNCHANGED <<scopes, pc, input, parser, ast, err, jp, registry, last, intrs, calls>>

SpecCall == InitCall /\ [][CallBuiltin]_vars

\* ------------------------------------------------------------------------
\* Calls of single functions of the package
\* ------------------------------------------------------------------------
\* The program is about to make one of the given calls; nothing is compiled.
Ready(ready) ==
  /\ pc = "compiled"
  /\ input = <<>>
  /\ parser = NewParser
  /\ ast = EmptyNode
  /\ err = nil
  /\ InitSearch
  /\ fn \in ready

\* The texts of at most n runes of a set.
Texts(runes, n) == UNION {[1..k -> runes] : k \in 0..n}

\* Longest text of operator characters that is tokenized.
MaxOps == 4

\* tokens, err := NewLexer().tokenize(expression)
Tokenize ==
  /\ fn.pc = "ready"
  /\ fn.name = "tokenize"
  /\ \E r \in {tokenize(NewLexer, fn.expression)} :
        fn' = [pc |-> "returned", name |-> fn.name, expression |-> fn.expression,
               tokens |-> r.tokens, err |-> r.err]
  /\ UNCHANGED <<scopes, pc, input, parser, ast, err, jp, registry, last, intrs, calls>>

\* The operator characters, and the space, are tokenized in every order.
SpecTokenize ==
  /\ Ready({[pc |-> "ready", name |-> "tokenize", expression |-> e] :
              e \in Texts({"|", "<", ">", "!", "=", "&", " "}, MaxOps)})
  /\ [][Tokenize]_vars

\* ------------------------------------------------------------------------
\* Compile of a projection that is followed by a pipe
\* ------------------------------------------------------------------------
\* The expressions left middle | right: left forms a projection, middle
\* continues it, right is what follows the pipe.
\*   left:    [*]  a[*]  *  a.*  []  a[]  [:]  a[0:]  [?a]  a[?a]
\*   middle:  (nothing)  .b  [0]  [*]  .b.c
\*   right:   [0]  b  @  [*]  b[0]
PipeExpressions ==
  LET lefts == {<<"[", "*", "]">>, <<"a", "[", "*", "]">>, <<"*">>, <<"a", ".", "*">>,
                <<"[", "]">>, <<"a", "[", "]">>, <<"[", ":", "]">>,
                <<"a", "[", "0", ":", "]">>, <<"[", "?", "a", "]">>,
                <<"a", "[", "?", "a", "]">>}
      middles == {<<>>, <<".", "b">>, <<"[", "0", "]">>, <<"[", "*", "]">>,
                  <<".", "b", ".", "c">>}
      rights == {<<"[", "0", "]">>, <<"b">>, <<"@">>, <<"[", "*", "]">>,
                 <<"b", "[", "0", "]">>}
  IN [left : lefts, middle : middles, right : rights]

\* Compile(left middle | right)
InitPipe ==
  /\ pc = "typing"
  /\ input \in {e.left \o e.middle \o <<"|">> \o e.right : e \in PipeExpressions}
  /\ parser = NewParser
  /\ ast = EmptyNode
  /\ err = nil
  /\ InitSearch
  /\ fn = [pc |-> "idle"]

SpecPipe == InitPipe /\ [][Compile]_vars

\* ------------------------------------------------------------------------
\* Slice (src/unnamed/part_004)
\* ------------------------------------------------------------------------
\* The int of the model has the values -MaxInt-1 .. MaxInt; an addition that
\* leaves them wraps around, as the addition of two Go ints does.
MaxInt == 7
addInt(a, b) == ((a + b + MaxInt + 1) % (2 * (MaxInt + 1))) - (MaxInt + 1)

\* Longest array that is sliced.
MaxSliceLen == 3

capSlice(length, actual, step) ==
  IF actual < 0
  THEN IF addInt(actual, length) < 0
       THEN (IF step < 0 THEN 0 - 1 ELSE 0)
       ELSE addInt(actual, length)
  ELSE IF actual >= length
       THEN (IF step < 0 THEN length - 1 ELSE length)
       ELSE actual

\* computeSliceParams(length, parts): parts are SliceParam{N, Specified}
computeSliceParams(length, parts) ==
  LET step == IF ~parts[3].Specified THEN 1 ELSE parts[3].N
      start == IF ~parts[1].Specified
               THEN (IF step < 0 THEN length - 1 ELSE 0)
               ELSE capSlice(length, parts[1].N, step)
      stop == IF ~parts[2].Specified
              THEN (IF step < 0 THEN 0 - 1 ELSE length)
              ELSE capSlice(length, parts[2].N, step)
  IN IF parts[3].Specified /\ parts[3].N = 0
     THEN [computed |-> <<>>,
           err |-> errorString("Invalid slice, step cannot be 0", "", 0, 0)]
     ELSE [computed |-> <<start, stop, step>>, err |-> nil]

RECURSIVE sliceAppend(_, _, _, _, _)
\* The loops of Slice: for i := start; i < stop (i > stop); i += step.
\* slice[i] with i outside the slice is a panic.
sliceAppend(slice, i, stop, step, result) ==
  IF (step > 0 /\ i < stop) \/ (step < 0 /\ i > stop)
  THEN IF i < 0 \/ i >= Len(slice) THEN [result |-> <<>>, err |-> panicError]
       ELSE sliceAppend(slice, addInt(i, step), stop, step, Append(result, slice[i + 1]))
  ELSE [result |-> result, err |-> nil]

\* Slice(slice, parts)
Slice(slice, parts) ==
  LET sliced(c) ==
        IF IsErr(c.err) THEN [result |-> <<>>, err |-> c.err]
        ELSE sliceAppend(slice, c.computed[1], c.computed[2], c.computed[3], <<>>)
  IN sliced(computeSliceParams(Len(slice), parts))

CallSlice ==
  /\ fn.pc = "ready"
  /\ fn.name = "Slice"
  /\ \E r \in {Slice(fn.slice, fn.parts)} :
        fn' = [pc |-> "returned", name |-> fn.name, slice |-> fn.slice, parts |-> fn.parts,
               result |-> r.result, err |-> r.err]
  /\ UNCHANGED <<scopes, pc, input, parser, ast, err, jp, registry, last, intrs, calls>>

\* The arrays [0, 1, ..] of at most MaxSliceLen elements are sliced with
\* every start, stop and step, given or not.
SpecSlice ==
  /\ Ready({[pc |-> "ready", name |-> "Slice",
             slice |-> [i \in 1..n |-> Number(i - 1)], parts |-> parts] :
              n \in 0..MaxSliceLen,
              parts \in [1..3 -> {[N |-> 0, Specified |-> FALSE]} \cup
                                 {[N |-> k, Specified |-> TRUE] :
                                    k \in (0 - MaxInt - 1)..MaxInt}]})
  /\ [][CallSlice]_vars

\* ------------------------------------------------------------------------
\* Scopes (src/errors.go, scopes part)
\* ------------------------------------------------------------------------
\* Deepest scope stack the program builds.
MaxScopes == 3

\* scopes.pushScope(item)
pushScope(item) ==
  /\ ~scopes.panicked
  /\ Len(scopes.stack) < MaxScopes
  /\ scopes' = [stack |-> Append(scopes.stack, item), got |-> [identifier |-> ""],
                panicked |-> FALSE]
  /\ UNCHANGED <<pc, input, parser, ast, err, jp, registry, last, intrs, calls, fn>>

\* scopes.popScope(): a pop of the empty stack is a panic, which ends the
\* program.
popScope ==
  /\ ~scopes.panicked
  /\ scopes' = [stack |-> SubSeq(scopes.stack, 1, Len(scopes.stack) - 1),
                got |-> [identifier |-> ""], panicked |-> scopes.stack = <<>>]
  /\ UNCHANGED <<pc, input, parser, ast, err, jp, registry, last, intrs, calls, fn>>

RECURSIVE getValue_Outermost(_, _, _)
\* A getValue that returns the binding of the scope that was pushed first.
getValue_Outermost(stack, identifier, i) ==
  IF i < 0 THEN [item |-> Null, ok |-> FALSE]
  ELSE IF identifier \in DOMAIN stack[Len(stack) - i]
       THEN [item |-> stack[Len(stack) - i][identifier], ok |-> TRUE]
       ELSE getValue_Outermost(stack, identifier, i - 1)

RECURSIVE getValue(_, _, _)
\* The loop of scopes.getValue(identifier): for i := len(stack) - 1; i >= 0; i--
getValue(stack, identifier, i) ==
  IF i < 0 THEN [item |-> Null, ok |-> FALSE]
  ELSE IF identifier \in DOMAIN stack[i + 1]
       THEN [item |-> stack[i + 1][identifier], ok |-> TRUE]
       ELSE getValue(stack, identifier, i - 1)

\* item, ok := scopes.getValue(identifier)
GetValue(identifier) ==
  /\ ~scopes.panicked
  /\ \E r \in {getValue(scopes.stack, identifier, Len(scopes.stack) - 1)} :
        scopes' = [scopes EXCEPT !.got = [identifier |-> identifier, item |-> r.item,
                                          ok |-> r.ok]]
  /\ UNCHANGED <<pc, input, parser, ast, err, jp, registry, last, intrs, calls, fn>>

\* The program pushes scopes that bind foo, qux, both or nothing to bar or
\* baz, pops them, and looks identifiers up.
SpecScopes ==
  /\ Init
  /\ [][\/ \E names \in SUBSET {"foo", "qux"} :
             \E item \in [names -> {String(<<"bar">>), String(<<"baz">>)}] : pushScope(item)
        \/ popScope
        \/ \E identifier \in {"foo", "qux", "nope"} : GetValue(identifier)]_vars

\* ------------------------------------------------------------------------
\* Host values (src/errors.go, object part)
\* ------------------------------------------------------------------------
\* Longest chain of pointers in front of a host value.
MaxDepth == 3

\* A Go value that is handed in as interface{}: a JSON value, a struct, or a
\* pointer.  Pointer(v, FALSE) points to a variable of the type of v,
\* Pointer(v, TRUE) to a variable of type interface{} that holds v.
Pointer(v, toInterface) == [t |-> "pointer", elem |-> v, toInterface |-> toInterface]

\* getObjectKind(value): rv := reflect.Indirect(reflect.ValueOf(value)), which
\* is the value itself, or what the pointer points to when the value is a
\* pointer; the kind of what a pointer to an interface{} points to is
\* reflect.Interface.
getObjectKind(value) ==
  LET rv == IF value.t = "pointer"
            THEN [kind |-> IF value.toInterface THEN "interface" ELSE value.elem.t,
                  v |-> value.elem]
            ELSE [kind |-> value.t, v |-> value]
  IN [kind |-> CASE rv.kind = "struct" -> "objectKindStruct"
                 [] rv.kind = "object" -> "objectKindMapStringInterface"
                 [] OTHER -> "objectKindNone",
      rv |-> rv.v]

isObject(value) == getObjectKind(value).kind # "objectKindNone"

\* toObject(value): the map of a struct has a key for each exported field,
\* named by its jmes tag, else by its json tag up to a comma, else by the
\* field; value.(map[string]interface{}) of a value that is not such a map is
\* a panic.  f.Tag.Lookup gives [ok |-> TRUE, t |-> the tag] or [ok |-> FALSE].
toObject(value) ==
  LET k == getObjectKind(value)
      comma(t) == {i \in DOMAIN t : t[i] = ","}
      first(t) == CHOOSE i \in comma(t) : \A j \in comma(t) : i <= j
      key(f) ==
        IF f.jmes.ok THEN (IF f.jmes.t \in {<<>>, <<"-">>} THEN f.Name ELSE Str(f.jmes.t))
        ELSE IF f.json.ok
             THEN IF f.json.t \in {<<>>, <<"-">>} THEN f.Name
                  ELSE IF comma(f.json.t) # {}
                       THEN (IF first(f.json.t) = 1 THEN f.Name
                             ELSE Str(SubSeq(f.json.t, 1, first(f.json.t) - 1)))
                       ELSE Str(f.json.t)
             ELSE f.Name
      skipped(f) == f.jmes.ok /\ f.jmes.t = <<"-">>
      kept == {i \in DOMAIN k.rv.fields :
                 k.rv.fields[i].Exported /\ ~skipped(k.rv.fields[i])}
      \* ret[key] = .. in the order of the fields: the last field of a key wins
      latest(name) == CHOOSE i \in kept : /\ key(k.rv.fields[i]) = name
                                        /\ \A j \in kept : key(k.rv.fields[j]) = name => j <= i
  IN CASE k.kind = "objectKindStruct" ->
            [ret |-> Object([name \in {key(k.rv.fields[i]) : i \in kept} |->
                               k.rv.fields[latest(name)].value]),
             err |-> nil]
       [] k.kind = "objectKindMapStringInterface" ->
            IF value.t = "object" THEN [ret |-> value, err |-> nil]
            ELSE [ret |-> Null, err |-> panicError]
       [] OTHER -> [ret |-> Null, err |-> nil]

\* isObject(value) and, for an object, toObject(value)
ToObject ==
  /\ fn.pc = "ready"
  /\ fn.name = "toObject"
  /\ \E object \in {isObject(fn.value)} :
       \E r \in {IF object THEN toObject(fn.value) ELSE [ret |-> Null, err |-> nil]} :
          fn' = [pc |-> "returned", name |-> fn.name, value |-> fn.value, depth |-> fn.depth,
                 base |-> fn.base, isObject |-> object, ret |-> r.ret, err |-> r.err]
  /\ UNCHANGED <<scopes, pc, input, parser, ast, err, jp, registry, last, intrs, calls>>

\* The values {"keyPtr": 10}, {}, a struct with the field KeyPtr, 10, "s",
\* [10] and null, behind every chain of at most MaxDepth pointers.
SpecObject ==
  /\ Ready(LET ten == Number(10)
               bases == {Object(MapSet(EmptyMap, "keyPtr", ten)), Object(EmptyMap),
                         [t |-> "struct",
                          fields |-> <<[Name |-> "KeyPtr", Exported |-> TRUE, jmes |-> [ok |-> FALSE],
                                        json |-> [ok |-> TRUE,
                                                  t |-> <<"k", "e", "y", "P", "t", "r", ",", "o">>],
                                        value |-> ten]>>],
                         ten, String(<<"s">>), Array(<<ten>>), Null}
               RECURSIVE behind(_, _)
               behind(v, chain) == IF chain = <<>> THEN v
                                   ELSE Pointer(behind(v, Tail(chain)), Head(chain))
           IN {[pc |-> "ready", name |-> "toObject", value |-> behind(b, chain),
                depth |-> Len(chain), base |-> b] :
                 b \in bases, chain \in Texts({TRUE, FALSE}, MaxDepth)})
  /\ [][ToObject]_vars

\* ------------------------------------------------------------------------
\* Calls of avg, contains, find_first, find_last, pad_left and pad_right
\* ------------------------------------------------------------------------
\* Longest string that is searched or padded, and longest array.
MaxSubject == 3

SpecLibrary ==
  /\ Ready(LET strings(runes, n) == {String(s) : s \in Texts(runes, n)}
               numbers == {Number(n) : n \in (0 - 1)..(MaxSubject + 1)}
               elements == {Number(1), String(<<"a">>), Array(<<Number(1)>>),
                            Object(EmptyMap), Null}
               arrays(of, n) == {Array(a) : a \in Texts(of, n)}
               avg == {<<a>> : a \in arrays({Number(0), Number(1), Number(2)},
                                            MaxSubject - 1)}
               contains == (arrays(elements, MaxSubject - 1) \cup strings({"a", "b"}, 2))
                             \X (elements \cup {Array(<<Number(2)>>), String(<<"b">>)})
               find == UNION {strings({"a", "b"}, MaxSubject) \X strings({"a", "b"}, 2),
                              strings({"a", "b"}, MaxSubject) \X strings({"a", "b"}, 2)
                                \X numbers,
                              strings({"a", "b"}, MaxSubject) \X strings({"a", "b"}, 2)
                                \X numbers \X numbers}
               pad == UNION {strings({"a"}, 2) \X {Number(n) : n \in 0..MaxSubject},
                             strings({"a"}, 2) \X {Number(n) : n \in 0..MaxSubject}
                               \X strings({"x", "y"}, 2)}
               calling(name, arguments) ==
                 {[pc |-> "ready", name |-> name, arguments |-> a] : a \in arguments}
           IN UNION {calling("avg", avg), calling("contains", contains),
                     calling("find_first", find), calling("find_last", find),
                     calling("pad_left", pad), calling("pad_right", pad)})
  /\ [][CallBuiltin]_vars


\* ------------------------------------------------------------------------
\* Search of a filter projection (src/parser.go, TestEqualityWithNullRHS)
\* ------------------------------------------------------------------------
\* foo[?key == `null`]
FilterExpr ==
  <<"f", "o", "o", "[", "?", "k", "e", "y", " ", "=", "=", " ",
    Backquote, "n", "u", "l", "l", Backquote, "]">>

\* The elements of foo: {"key":null} {"key":1} {"key":false} {"notkey":true} {}
FilterElements ==
  LET obj(k, v) == Object(MapSet(EmptyMap, k, v))
  IN {obj("key", Null), obj("key", Number(1)), obj("key", Bool(FALSE)),
      obj("notkey", Bool(TRUE)), Object(EmptyMap)}

\* The longest array foo that is searched.
MaxElements == 3

\* The documents {"foo": [...]} that are searched.
FilterDocuments ==
  {Object(MapSet(EmptyMap, "foo", Array(elements))) :
     elements \in UNION {[1..n -> FilterElements] : n \in 0..MaxElements}}

SpecFilter ==
  Init /\ [][\E data \in FilterDocuments : PackageSearch(FilterExpr, data)]_vars

\* ------------------------------------------------------------------------
\* Calls of max_by, min_by and sort_by (src/unnamed/part_001)
\* ------------------------------------------------------------------------
\* The elements {"a":1} {"a":2} {"a":"s"} {"a":"t"} {"a":null} {"a":[]} that
\* the key expression &a is evaluated on.
ByElements ==
  {Object(MapSet(EmptyMap, "a", v)) :
     v \in {Number(1), Number(2), String(<<"s">>), String(<<"t">>), Null, Array(<<>>)}}

\* max_by(arr, &a), min_by(arr, &a) and sort_by(arr, &a) on the arrays of at
\* most MaxElements elements.
SpecBy ==
  /\ Ready({[pc |-> "ready", name |-> name,
             arguments |-> <<Array(arr), expRef(ASTNode("ASTField", "a", <<>>))>>] :
              name \in {"max_by", "min_by", "sort_by"},
              arr \in Texts(ByElements, MaxElements)})
  /\ [][CallBuiltin]_vars

\* ------------------------------------------------------------------------
\* Parse of a token list (src/parser.go)
\* ------------------------------------------------------------------------
RECURSIVE Lexed(_, _)
\* The token list of the texts: the tokens one after the other from the
\* offset on, and tEOF.  A text is a token type with its value.
Lexed(texts, offset) ==
  IF texts = <<>> THEN <<token("tEOF", <<>>, offset, 0)>>
  ELSE <<token(Head(texts).tokenType, Head(texts).value, offset, Len(Head(texts).value))>>
         \o Lexed(Tail(texts), offset + Len(Head(texts).value))

\* p.tokens = tokens; parsed, err := p.parseExpression(0); ... of Parse
ParseTokens ==
  /\ fn.pc = "ready"
  /\ fn.name = "parseTokens"
  /\ \E r \in {parseTokens(NewParser, fn.tokens)} :
        fn' = [pc |-> "returned", name |-> fn.name, tokens |-> fn.tokens,
               node |-> r.node, err |-> r.err, index |-> r.p.index]
  /\ UNCHANGED <<scopes, pc, input, parser, ast, err, jp, registry, last, intrs, calls>>

\* Longest token list with a unary ! that is parsed, tEOF not counted.
MaxNot == 4

\* The tokens  !  a  b  .  ==
NotTexts ==
  {[tokenType |-> "tNot", value |-> <<"!">>],
   [tokenType |-> "tUnquotedIdentifier", value |-> <<"a">>],
   [tokenType |-> "tUnquotedIdentifier", value |-> <<"b">>],
   [tokenType |-> "tDot", value |-> <<".">>],
   [tokenType |-> "tEQ", value |-> <<"=", "=">>]}

SpecNot ==
  /\ Ready({[pc |-> "ready", name |-> "parseTokens", tokens |-> Lexed(texts, 0)] :
              texts \in Texts(NotTexts, MaxNot)})
  /\ [][ParseTokens]_vars

\* Longest list of tokens between the brackets of a function call or of a
\* multi-select hash.
MaxItems == 6

\* The tokens  a  ,  :
ItemTexts ==
  {[tokenType |-> "tUnquotedIdentifier", value |-> <<"a">>],
   [tokenType |-> "tComma", value |-> <<",">>],
   [tokenType |-> "tColon", value |-> <<":">>]}

\* f( items ) and { items }
SpecItems ==
  /\ Ready(LET f == [tokenType |-> "tUnquotedIdentifier", value |-> <<"f">>]
               open == [tokenType |-> "tLparen", value |-> <<"(">>]
               close == [tokenType |-> "tRparen", value |-> <<")">>]
               lbrace == [tokenType |-> "tLbrace", value |-> <<"{">>]
               rbrace == [tokenType |-> "tRbrace", value |-> <<"}">>]
           IN {[pc |-> "ready", name |-> "parseTokens", tokens |-> Lexed(texts, 0)] :
                 texts \in {<<f, open>> \o items \o <<close>> : items \in Texts(ItemTexts, MaxItems)}
                           \cup {<<lbrace>> \o items \o <<rbrace>> :
                                   items \in Texts(ItemTexts, MaxItems)}})
  /\ [][ParseTokens]_vars

\* operand ( items ), the operand being one of
\*   f  "q"  'x'  `1`  @  *  a[0]  a[*]  (a)  a.f
SpecCallee ==
  /\ Ready(LET t(tokenType, value) == [tokenType |-> tokenType, value |-> value]
               a == t("tUnquotedIdentifier", <<"a">>)
               f == t("tUnquotedIdentifier", <<"f">>)
               star == t("tStar", <<"*">>)
               lb == t("tLbracket", <<"[">>)
               rb == t("tRbracket", <<"]">>)
               open == t("tLparen", <<"(">>)
               close == t("tRparen", <<")">>)
               operands == {<<f>>, <<t("tQuotedIdentifier", <<"q">>)>>,
                            <<t("tStringLiteral", <<"x">>)>>, <<t("tJSONLiteral", <<"1">>)>>,
                            <<t("tCurrent", <<"@">>)>>, <<star>>,
                            <<a, lb, t("tNumber", <<"0">>), rb>>, <<a, lb, star, rb>>,
                            <<open, a, close>>, <<a, t("tDot", <<".">>), f>>}
           IN {[pc |-> "ready", name |-> "parseTokens", tokens |-> Lexed(texts, 0)] :
                 texts \in {operand \o <<open>> \o items \o <<close>> :
                              operand \in operands,
                              items \in Texts({a, t("tComma", <<",">>)}, MaxItems)}})
  /\ [][ParseTokens]_vars

\* ------------------------------------------------------------------------
\* tokenize of numbers (src/lexer.go)
\* ------------------------------------------------------------------------
\* Longest text of signs, digits and letters that is tokenized.
MaxDigits == 4

SpecNumber ==
  /\ Ready({[pc |-> "ready", name |-> "tokenize", expression |-> e] :
              e \in Texts({"-", "0", "9", "a"}, MaxDigits)})
  /\ [][Tokenize]_vars

\* Longest token list that is parsed, tEOF not counted.
MaxTokens == 3

\* A token of every type but tEOF, the comparators being one type.
TokenTexts ==
  LET t(tokenType, value) == [tokenType |-> tokenType, value |-> value]
  IN {t("tUnquotedIdentifier", <<"a">>), t("tQuotedIdentifier", <<"q">>),
      t("tStringLiteral", <<"x">>), t("tJSONLiteral", <<"1">>), t("tNumber", <<"0">>),
      t("tCurrent", <<"@">>), t("tExpref", <<"&">>), t("tNot", <<"!">>),
      t("tStar", <<"*">>), t("tDot", <<".">>), t("tComma", <<",">>), t("tColon", <<":">>),
      t("tPipe", <<"|">>), t("tOr", <<"|", "|">>), t("tAnd", <<"&", "&">>),
      t("tEQ", <<"=", "=">>), t("tFlatten", <<"[", "]">>), t("tFilter", <<"[", "?">>),
      t("tLbracket", <<"[">>), t("tRbracket", <<"]">>), t("tLparen", <<"(">>),
      t("tRparen", <<")">>), t("tLbrace", <<"{">>), t("tRbrace", <<"}">>),
      t("tUnknown", <<"#">>)}

SpecParser ==
  /\ Ready({[pc |-> "ready", name |-> "parseTokens", tokens |-> Lexed(texts, 0)] :
              texts \in Texts(TokenTexts, MaxTokens)})
  /\ [][ParseTokens]_vars

\* ------------------------------------------------------------------------
\* A Parser and a Lexer that are used again (src/parser.go, src/lexer.go)
\* ------------------------------------------------------------------------
\* Longest expression that is handed to a reused Parser or Lexer.
MaxReuse == 2

\* The expressions that are handed to them.
ReuseExprs == Texts({"a", "[", "\""}, MaxReuse)

\* What is kept of a call for the call that follows it.
Previous(before) ==
  IF before.op = "none" THEN [called |-> FALSE]
  ELSE [called |-> TRUE, expression |-> before.expression, err |-> before.err]

\* node, err := parser.Parse(expression) on the parser of the calls before
ParseAgain(expression) ==
  /\ fn.pc = "reused"
  /\ fn.object = "Parser"
  /\ \E r \in {Parse(fn.parser, expression)} :
        fn' = [pc |-> "reused", object |-> "Parser", parser |-> r.p, op |-> "Parse",
               expression |-> expression, node |-> r.node, err |-> r.err,
               previous |-> Previous(fn)]
  /\ UNCHANGED <<scopes, pc, input, parser, ast, err, jp, registry, last, intrs, calls>>

\* tokens, err := lexer.tokenize(expression) on the lexer of the calls before
TokenizeAgain(expression) ==
  /\ fn.pc = "reused"
  /\ fn.object = "Lexer"
  /\ \E r \in {tokenize(fn.lexer, expression)} :
        fn' = [pc |-> "reused", object |-> "Lexer", lexer |-> r.lexer, op |-> "tokenize",
               expression |-> expression, tokens |-> r.tokens, err |-> r.err,
               previous |-> Previous(fn)]
  /\ UNCHANGED <<scopes, pc, input, parser, ast, err, jp, registry, last, intrs, calls>>

NextReuse ==
  \/ \E expression \in ReuseExprs : ParseAgain(expression)
  \/ \E expression \in ReuseExprs : TokenizeAgain(expression)

SpecReuse ==
  /\ Ready({[pc |-> "reused", object |-> "Parser", parser |-> NewParser, op |-> "none"],
            [pc |-> "reused", object |-> "Lexer", lexer |-> NewLexer, op |-> "none"]})
  /\ [][NextReuse]_vars
\* ------------------------------------------------------------------------
\* Claims about Compile / Parser.Parse
\* ------------------------------------------------------------------------
\* The expressions that open a bracket with a number or a colon and never
\* close it: [0   [:   [0:0
UnclosedBrackets == {<<"[", "0">>, <<"[", ":">>, <<"[", "0", ":", "0">>}

\* C1: when a required token is missing, Parse returns a non-nil error: an
\* unclosed bracket that starts with a number or a colon is rejected, and a
\* Parse that returns a nil error never returns a root of type ASTEmpty.
C1_MissingTokenIsAnError ==
  pc = "compiled" =>
    /\ input \in UnclosedBrackets => IsErr(err)
    /\ ~IsErr(err) => ast.NodeType # "ASTEmpty"

\* C4: every error Compile returns is a SyntaxError that carries the
\* expression text and a byte offset inside it.
C4_EveryErrorIsASyntaxError ==
  pc = "compiled" /\ IsErr(err) =>
    /\ err.kind = "SyntaxError"
    /\ err.Expression = input
    /\ err.Offset \in 0..Len(input)

\* ------------------------------------------------------------------------
\* Claims about Search
\* ------------------------------------------------------------------------
\* The latest call searched the compiled query of the expression.
Searched(expression) ==
  /\ last.op = "Search"
  /\ jp[last.q].ast = Parse(NewParser, expression).node

\* C2: Search never mutates its input data: after Search has returned, with
\* a result or with an error, the data it was given is equal, element order
\* included, to the data before the call.
C2_SearchLeavesInputUnchanged ==
  last.op \in {"Search", "PackageSearch"} => last.after = last.data

\* C9: map(&a, @) on an array of objects returns an array of the same length
\* whose i-th element is the value of a on the i-th object, null where the
\* object has no key a; a key that is missing never makes map fail.
C9_MapYieldsNullForNotFound ==
  LET valueOrNull(x) == IF "a" \in DOMAIN x.v THEN x.v["a"] ELSE Null
  IN /\ Searched(MapExpr)
     /\ last.data.t = "array"
     /\ \A i \in DOMAIN last.data.v : last.data.v[i].t = "object"
     =>
       /\ ~IsErr(last.err)
       /\ last.val = Array([i \in DOMAIN last.data.v |-> valueOrNull(last.data.v[i])])

\* The latest call searched a.b on an object whose a is an object.
FieldPathSearched ==
  /\ Searched(FieldExpr)
  /\ last.data.t = "object"
  /\ "a" \in DOMAIN last.data.v
  /\ last.data.v["a"].t = "object"

\* C10: Search tells a missing key from a null value: a field path whose
\* final key is absent returns a NotFoundError, one whose final key is
\* present with the value null returns null and a nil error.
C10_MissingKeyIsNotNull ==
  FieldPathSearched =>
    IF "b" \in DOMAIN last.data.v["a"].v
    THEN /\ last.data.v["a"].v["b"].t = "null" => last.val.t = "null"
         /\ ~IsErr(last.err)
    ELSE last.err = NotFoundError("b")

\* a.b was searched on {"a":{}}: the final key is absent.
C10_Witness ==
  /\ FieldPathSearched
  /\ "b" \notin DOMAIN last.data.v["a"].v
  /\ IsErr(last.err)

\* ------------------------------------------------------------------------
\* Claims about concurrent Search calls
\* ------------------------------------------------------------------------
\* What the Search call of a goroutine returns when it runs alone.
Alone(t) == JMESPathSearch(jp[calls[t].q], {}, calls[t].data).r

IsArityError(e) ==
  /\ e.kind = "errors.errorString"
  /\ e.msg \in {"invalid arity, expects", "invalid arity, expects or more",
                "invalid arity, expects at most"}

\* The count of the arguments is outside the arity the built-in declares.
OutsideArity(name, n) ==
  LET specs == newFunctionCaller[name].arguments
  IN \/ n < Cardinality({i \in DOMAIN specs : ~specs[i].optional})
     \/ (\A i \in DOMAIN specs : ~specs[i].variadic) /\ n > Len(specs)

\* C8: a call of a built-in with n arguments fails with an arity error if and
\* only if n is less than the number of its non-optional argument specs, or
\* it is not variadic and n is greater than the number of its specs; the
\* handler is not invoked for a rejected count.
C8_ArityIsChecked ==
  fn.pc = "returned" =>
    /\ IsArityError(fn.err) <=> OutsideArity(fn.name, Len(fn.arguments))
    /\ OutsideArity(fn.name, Len(fn.arguments)) => fn.invoked = <<>>

\* find_first, which takes two to four arguments, was called with five and
\* failed with an arity error.
C8_Witness ==
  /\ fn.pc = "returned"
  /\ fn.name = "find_first"
  /\ Len(fn.arguments) = 5
  /\ IsArityError(fn.err)

\* ------------------------------------------------------------------------
\* Claims about RegisterFunction
\* ------------------------------------------------------------------------
\* The names that were registered on a compiled query, and the most recent
\* registration of a name.
Registered(q) == {registry[q][i].name : i \in DOMAIN registry[q]}
Latest(q, name) ==
  LET at == {i \in DOMAIN registry[q] : registry[q][i].name = name}
  IN registry[q][CHOOSE i \in at : \A j \in at : j <= i]

\* The positions of the signature strings, each with its type alternatives:
\*   number   string|array[string],string   expref,array
Positions(args) ==
  CASE args = <<"number">> -> <<{"number"}>>
    [] args = <<"string", "|", "array[string]", ",", "string">> ->
         <<{"string", "array[string]"}, {"string"}>>
    [] args = <<"expref", ",", "array">> -> <<{"expref"}, {"array"}>>

\* The value has the type.
OfType(value, type) ==
  CASE type = "array[string]" ->
         value.t = "array" /\ \A i \in DOMAIN value.v : value.v[i].t = "string"
    [] OTHER -> value.t = type

\* The latest call searched a compiled query that calls a function
\* registered on it.
RegisteredCalled ==
  /\ last.op = "Search"
  /\ jp[last.q].ast.NodeType = "ASTFunctionExpression"
  /\ jp[last.q].ast.Value \in Registered(last.q)

\* The registration that the call of the latest search is about, and the
\* values of the arguments of the call: @ is the data, 's' the string, &a the
\* reference to the expression a.
Called == Latest(last.q, jp[last.q].ast.Value)
Evaluated ==
  LET children == jp[last.q].ast.Children
      argument(node) == CASE node.NodeType = "ASTCurrentNode" -> last.data
                          [] node.NodeType = "ASTLiteral" -> node.Value
                          [] node.NodeType = "ASTExpRef" -> expRef(node.Children[1])
  IN [i \in DOMAIN children |-> argument(children[i])]

\* The count of the arguments fits the positions of the signature, and each
\* argument has one of the types of its position (the last position for the
\* arguments a variadic function takes beyond its positions).
Accepted ==
  LET positions == Positions(Called.args)
      n == Len(Evaluated)
  IN /\ n = Len(positions) \/ (Called.variadic /\ n >= Len(positions))
     /\ \A i \in 1..n : \E type \in positions[Min(i, Len(positions))] :
          OfType(Evaluated[i], type)

\* The handler of the registration was invoked once, with the arguments
\* passed, if the call is accepted; if it is not, Search returned an error
\* and no handler was invoked.
HandlerInvokedWith(passed) ==
  IF Accepted
  THEN last.invoked = <<[handler |-> Called.handler, arguments |-> passed]>>
  ELSE IsErr(last.err) /\ last.invoked = <<>>

NullOrNoKey(elements) ==
  SelectSeq(elements, LAMBDA e : "key" \notin DOMAIN e.v \/ e.v["key"] = Null)

RECURSIVE OperatorKinds(_)
\* The token kinds the table of the two-character operators gives for a text
\* of operator characters and spaces, read left to right, the longer operator
\* first; a lone = ends the text with a syntax error.
OperatorKinds(s) ==
  LET two == [p \in {<<"|", "|">>, <<"<", "=">>, <<">", "=">>, <<"!", "=">>,
                     <<"=", "=">>, <<"&", "&">>} |->
                CASE p[1] = "|" -> "tOr" [] p[1] = "<" -> "tLTE" [] p[1] = ">" -> "tGTE"
                  [] p[1] = "!" -> "tNE" [] p[1] = "=" -> "tEQ" [] p[1] = "&" -> "tAnd"]
      one == [c \in {"|", "<", ">", "!", "&"} |->
                CASE c = "|" -> "tPipe" [] c = "<" -> "tLT" [] c = ">" -> "tGT"
                  [] c = "!" -> "tNot" [] c = "&" -> "tExpref"]
  IN IF s = <<>> THEN <<"tEOF">>
     ELSE IF s[1] = " " THEN OperatorKinds(Tail(s))
     ELSE IF Len(s) >= 2 /\ SubSeq(s, 1, 2) \in DOMAIN two
          THEN <<two[SubSeq(s, 1, 2)]>> \o OperatorKinds(SubSeq(s, 3, Len(s)))
     ELSE IF s[1] = "=" THEN <<"SyntaxError">>
     ELSE <<one[s[1]]>> \o OperatorKinds(Tail(s))

\* C13: the lexer tokenizes the two-character operators with their
\* one-character fallback as the table says: || is Or and | is Pipe, <= is Lte
\* and < is Lt, >= is Gte and > is Gt, != is Ne and a lone ! is Not, == is Eq
\* and a lone = makes the lexer return a syntax error, && is And.
C13_OperatorsAreTokenized ==
  fn.pc = "returned" /\ fn.name = "tokenize" =>
    LET expected == OperatorKinds(fn.expression)
    IN IF expected[Len(expected)] = "SyntaxError"
       THEN fn.err.kind = "SyntaxError"
       ELSE /\ ~IsErr(fn.err)
            /\ [i \in DOMAIN fn.tokens |-> fn.tokens[i].tokenType] = expected

\* ------------------------------------------------------------------------
\* Claims about the parser
\* ------------------------------------------------------------------------
\* C12: a pipe terminates an open projection: for every projection-forming
\* left side ([*], .*, [], a slice, a filter), continued or not, that is
\* followed by | X, the parser returns Pipe(P, X), P being what the text
\* before the pipe parses to and X what the text after it parses to; nothing
\* after the pipe is inside the projection.
C12_PipeEndsProjection ==
  pc = "compiled" =>
    \A e \in PipeExpressions :
      input = e.left \o e.middle \o <<"|">> \o e.right =>
        LET left == Parse(NewParser, e.left)
            before == Parse(NewParser, e.left \o e.middle)
            right == Parse(NewParser, e.right)
        IN /\ ~IsErr(err)
           /\ ~IsErr(left.err) /\ ~IsErr(before.err) /\ ~IsErr(right.err)
           /\ left.node.NodeType \in
                {"ASTProjection", "ASTValueProjection", "ASTFilterProjection"}
           /\ ast = ASTNode("ASTPipe", NoValue, <<before.node, right.node>>)

\* a[*].b | [0] is compiled to a pipe.
C12_Witness ==
  /\ pc = "compiled"
  /\ input = <<"a", "[", "*", "]", ".", "b", "|", "[", "0", "]">>
  /\ ast.NodeType = "ASTPipe"
  /\ ast.Children[1].NodeType = "ASTProjection"
  /\ ast.Children[2].NodeType = "ASTIndexExpression"

\* ------------------------------------------------------------------------
\* Claims about Slice
\* ------------------------------------------------------------------------
RECURSIVE SliceIndices(_, _, _)
\* The indices start, start+step, .. while i < stop (step > 0) or i > stop
\* (step < 0), over the integers.
SliceIndices(i, stop, step) ==
  IF (step > 0 /\ i < stop) \/ (step < 0 /\ i > stop)
  THEN <<i>> \o SliceIndices(i + step, stop, step)
  ELSE <<>>

\* C14: Slice is total and is the reference definition: step 0 is an error;
\* otherwise step defaults to 1, start and stop default to 0 and length
\* (step > 0) or length-1 and -1 (step < 0), a given bound has length added
\* when negative and is clamped to [0, length] (step > 0) or [-1, length-1]
\* (step < 0), and the result is array[i] for i = start, start+step, .. while
\* i < stop (step > 0) or i > stop (step < 0), in that order.
C14_SliceIsTheReference ==
  fn.pc = "returned" /\ fn.name = "Slice" =>
    LET length == Len(fn.slice)
        step == IF fn.parts[3].Specified THEN fn.parts[3].N ELSE 1
        bound(part, default) ==
          LET n == IF part.N < 0 THEN part.N + length ELSE part.N
          IN IF ~part.Specified THEN default
             ELSE IF step > 0 THEN Max(0, Min(length, n))
             ELSE Max(0 - 1, Min(length - 1, n))
        start == bound(fn.parts[1], IF step > 0 THEN 0 ELSE length - 1)
        stop == bound(fn.parts[2], IF step > 0 THEN length ELSE 0 - 1)
        indices == SliceIndices(start, stop, step)
    IN IF step = 0
       THEN fn.err.kind = "errors.errorString"
       ELSE /\ fn.err = nil
            /\ fn.result = [k \in DOMAIN indices |-> fn.slice[indices[k] + 1]]

\* ------------------------------------------------------------------------
\* Claims about the scopes
\* ------------------------------------------------------------------------
\* C16: after any sequence of pushScope and popScope, getValue(id) returns
\* the binding of id in the most recently pushed scope still on the stack
\* that contains id, and reports not-found if and only if no scope on the
\* stack contains id.
C16_InnermostBindingIsReturned ==
  scopes.got.identifier # "" =>
    LET id == scopes.got.identifier
        holders == {i \in DOMAIN scopes.stack : id \in DOMAIN scopes.stack[i]}
    IN /\ scopes.got.ok <=> holders # {}
       /\ scopes.got.ok =>
            \E i \in holders : /\ \A j \in holders : j <= i
                               /\ scopes.got.item = scopes.stack[i][id]

\* foo is looked up with two scopes on the stack that bind it differently:
\* the inner binding is returned.
C16_Witness ==
  /\ scopes.got.identifier = "foo"
  /\ Len(scopes.stack) = 2
  /\ "foo" \in DOMAIN scopes.stack[1] /\ "foo" \in DOMAIN scopes.stack[2]
  /\ scopes.stack[1]["foo"] # scopes.stack[2]["foo"]
  /\ scopes.got.ok
  /\ scopes.got.item = scopes.stack[2]["foo"]

\* ------------------------------------------------------------------------
\* Claims about host values
\* ------------------------------------------------------------------------
\* C15: host values are normalized through pointer chains of any depth: a
\* map or a struct behind d pointers, for every d >= 0, is object-like
\* (isObject is true) and its fields are reachable (toObject returns the map
\* of the underlying value), and a value that is not object-like stays so.
C15_PointerChainsAreFollowed ==
  fn.pc = "returned" /\ fn.name = "toObject" =>
    IF fn.base.t \in {"object", "struct"}
    THEN /\ fn.isObject
         /\ fn.err = nil
         /\ fn.ret = toObject(fn.base).ret
    ELSE ~fn.isObject

\* ------------------------------------------------------------------------
\* Claims about avg, contains, find_first, find_last, pad_left, pad_right
\* ------------------------------------------------------------------------
\* C17: avg of an empty array returns null, not a number and not an error;
\* avg of a non-empty array of numbers returns their arithmetic mean.
C17_AvgOfNothingIsNull ==
  fn.pc = "returned" /\ fn.name = "avg" =>
    LET numbers == fn.arguments[1].v
        RECURSIVE sum(_)
        sum(i) == IF i = 0 THEN 0 ELSE sum(i - 1) + numbers[i].v
    IN /\ fn.err = nil
       /\ IF numbers = <<>> THEN fn.val = Null
          ELSE /\ fn.val.t = "number"
               /\ "v" \in DOMAIN fn.val => fn.val.v * Len(numbers) = sum(Len(numbers))
               /\ "v" \notin DOMAIN fn.val =>
                    /\ "numerator" \in DOMAIN fn.val
                    /\ fn.val.numerator * Len(numbers) =
                         sum(Len(numbers)) * fn.val.denominator

\* C18: contains(array, x) uses structural equality: for every array and
\* every x of any JSON type, x being an array or an object included, it
\* returns true if and only if some element of the array is deeply equal to
\* x, and it never fails or aborts.
C18_ContainsIsStructural ==
  fn.pc = "returned" /\ fn.name = "contains" /\ fn.arguments[1].t = "array" =>
    /\ fn.err = nil
    /\ fn.val = Bool(\E i \in DOMAIN fn.arguments[1].v :
                       fn.arguments[1].v[i] = fn.arguments[2])

\* C19: for every non-empty subject, every non-empty substring and all
\* integer start and end arguments (a negative end, a start beyond the subject
\* and a start greater than the end included), find_first and find_last
\* return null or an offset o into the whole subject with
\* max(0, start) <= o and o + len(substring) <= min(end, len(subject)), and
\* never fail or abort.
C19_FindNeverFails ==
  /\ fn.pc = "returned" /\ fn.name \in {"find_first", "find_last"}
  /\ fn.arguments[1].v # <<>> /\ fn.arguments[2].v # <<>>
  =>
    LET subject == fn.arguments[1].v
        start == IF Len(fn.arguments) > 2 THEN Max(0, fn.arguments[3].v) ELSE 0
        end == IF Len(fn.arguments) > 3 THEN Min(fn.arguments[4].v, Len(subject))
               ELSE Len(subject)
    IN /\ fn.err = nil
       /\ \/ fn.val = Null
          \/ /\ fn.val.t = "number"
             /\ start <= fn.val.v
             /\ fn.val.v + Len(fn.arguments[2].v) <= end

\* C20: pad_left and pad_right require a pad of exactly one character: when
\* a pad is supplied whose length is not 1, the empty string included, the
\* call fails with an invalid-value error and returns no string.
C20_PadIsOneCharacter ==
  /\ fn.pc = "returned" /\ fn.name \in {"pad_left", "pad_right"}
  /\ Len(fn.arguments) > 2 /\ Len(fn.arguments[3].v) # 1
  =>
    /\ fn.err.kind = "errors.errorString"
    /\ fn.err.msg = "invalid value, pad"
    /\ fn.val.t # "string"


\* ------------------------------------------------------------------------
\* Claims about max_by, min_by and sort_by
\* ------------------------------------------------------------------------
\* The keys of the elements of a call of max_by, min_by or sort_by.
ByKeys(arguments) == [i \in DOMAIN arguments[1].v |-> arguments[1].v[i].v["a"]]

\* The keys are numbers throughout or strings throughout.
UniformKeys(keys) ==
  \/ \A i \in DOMAIN keys : keys[i].t = "number"
  \/ \A i \in DOMAIN keys : keys[i].t = "string"

\* C21: max_by, min_by and sort_by on an array of one or more elements, one
\* element included, return an error whenever the key of an element is
\* neither a number nor a string or differs in type from another key.
C21_KeysAreUniform ==
  /\ fn.pc = "returned" /\ fn.name \in {"max_by", "min_by", "sort_by"}
  /\ Len(fn.arguments[1].v) >= 1
  /\ ~UniformKeys(ByKeys(fn.arguments))
  => fn.err.kind = "errors.errorString"

\* On the arrays of two and more elements the calls fail exactly when the
\* keys are not uniform.
ByFailsFromTwo ==
  /\ fn.pc = "returned" /\ fn.name \in {"max_by", "min_by", "sort_by"}
  /\ Len(fn.arguments[1].v) >= 2
  => (~UniformKeys(ByKeys(fn.arguments))) = (fn.err.kind = "errors.errorString")

\* ------------------------------------------------------------------------
\* Claims about the unary !
\* ------------------------------------------------------------------------
\* The token types of a token list, tEOF left out.
TokenTypes(tokens) == [i \in 1..(Len(tokens) - 1) |-> tokens[i].tokenType]

Separated(types, width) ==
  /\ Len(types) % (width + 1) = width
  /\ \A i \in DOMAIN types :
        types[i] = CASE i % (width + 1) = 0 -> "tComma"
                     [] i % (width + 1) = 2 /\ width = 3 -> "tColon"
                     [] OTHER -> "tUnquotedIdentifier"

\* C23: Parse accepts the argument list of a function call and a multi-select
\* hash only when one comma separates every two elements and no comma follows
\* the last one: f(a a), f(a,) and {a: a a: a} are syntax errors.
C23_ElementsAreCommaSeparated ==
  LET types == TokenTypes(fn.tokens)
  IN /\ fn.pc = "returned" /\ fn.name = "parseTokens" /\ fn.err = nil
     => /\ types[1] = "tUnquotedIdentifier" /\ types[2] = "tLparen" =>
              \/ Len(types) = 3
              \/ Separated(SubSeq(types, 3, Len(types) - 1), 1)
        /\ types[1] = "tLbrace" => Separated(SubSeq(types, 2, Len(types) - 1), 3)

\* What is separated as C23 says is accepted.
SeparatedIsAccepted ==
  LET types == TokenTypes(fn.tokens)
  IN /\ fn.pc = "returned" /\ fn.name = "parseTokens"
     /\ Len(types) >= 3
     /\ \/ types[1] = "tUnquotedIdentifier" /\ types[2] = "tLparen"
           /\ Separated(SubSeq(types, 3, Len(types) - 1), 1)
        \/ types[1] = "tLbrace" /\ Separated(SubSeq(types, 2, Len(types) - 1), 3)
     => fn.err = nil

\* ------------------------------------------------------------------------
\* Claims about the name of a function
\* ------------------------------------------------------------------------
\* The index of the ( that follows the left operand: the first ( that is not
\* the first token.
CallParen(tokens) ==
  CHOOSE i \in 2..Len(tokens) :
    /\ tokens[i].tokenType = "tLparen"
    /\ \A j \in 2..(i - 1) : tokens[j].tokenType # "tLparen"

\* C24: a ( that follows a left operand is accepted only when an unquoted
\* identifier stands right before it, and the function node then has the
\* text of that identifier as its name; after a quoted identifier, a literal,
\* @, an index or a projection the ( is a syntax error.
C24_FunctionIsNamedByIdentifier ==
  /\ fn.pc = "returned" /\ fn.name = "parseTokens" /\ fn.err = nil
  => /\ fn.tokens[CallParen(fn.tokens) - 1].tokenType = "tUnquotedIdentifier"
     /\ CallParen(fn.tokens) = 2 =>
          /\ fn.node.NodeType = "ASTFunctionExpression"
          /\ fn.node.Value = Str(fn.tokens[1].value)

\* ------------------------------------------------------------------------
\* Claims about Number tokens
\* ------------------------------------------------------------------------
\* An optional - and one or more decimal digits.
IsNumberText(s) ==
  LET digits == IF s # <<>> /\ s[1] = "-" THEN Tail(s) ELSE s
  IN digits # <<>> /\ \A i \in DOMAIN digits : digits[i] \in Digits

\* C25: the text of every Number token that the lexer emits is an optional -
\* followed by one or more decimal digits; a - that no digit follows gives no
\* Number token.
C25_NumberTokensAreNumbers ==
  fn.pc = "returned" /\ fn.name = "tokenize"
    => \A i \in DOMAIN fn.tokens :
         fn.tokens[i].tokenType = "tNumber" => IsNumberText(fn.tokens[i].value)

\* ------------------------------------------------------------------------
\* Claims about the names in the function table
\* ------------------------------------------------------------------------
\* C26: the name that the arity error of a built-in prints, which is the name
\* stored in its table entry, is the name under which the function was called.
C26_ErrorNamesTheFunctionCalled ==
  /\ fn.pc = "returned" /\ "err" \in DOMAIN fn
  /\ fn.err.kind = "errors.errorString"
  /\ fn.err.msg \in {"invalid arity, expects", "invalid arity, expects or more",
                     "invalid arity, expects at most"}
  => fn.err.name = fn.name

\* ------------------------------------------------------------------------
\* Claims about the indices that Slice reads
\* ------------------------------------------------------------------------
\* C27: Slice reads slice[i] only for 0 <= i < length and returns, for every
\* length, start and stop and for every step of the machine integer that is
\* not 0, the steps with which i += step wraps around included.
C27_SliceReadsInRange ==
  fn.pc = "returned" /\ fn.name = "Slice" => fn.err # panicError

\* Slice reads outside of the slice only when start + step leaves the
\* integers of the machine.
SliceReadsInRangeUnlessWrapped ==
  fn.pc = "returned" /\ fn.name = "Slice" /\ fn.err = panicError
    => /\ fn.parts[3].Specified
       /\ \/ fn.parts[3].N + Len(fn.slice) > MaxInt
          \/ fn.parts[3].N - 1 < 0 - MaxInt - 1

\* ------------------------------------------------------------------------
\* Claims about the tokens that Parse reads
\* ------------------------------------------------------------------------
\* C28: for every token list that ends with tEOF, Parse returns and never
\* reads a token at an index at or beyond the length of the list, the reads
\* that build a syntax error after a failed parse of a part included.
C28_ParseReadsInRange ==
  fn.pc = "returned" /\ fn.name = "parseTokens" => fn.err # panicError

\* The parse of a | has failed on tEOF: the parser stands behind the last
\* token, and the syntax error was built with the offset of tEOF.
C28_Witness ==
  /\ fn.pc = "returned" /\ fn.name = "parseTokens"
  /\ TokenTypes(fn.tokens) = <<"tUnquotedIdentifier", "tPipe">>
  /\ fn.index = Len(fn.tokens)
  /\ fn.err.kind = "SyntaxError"
  /\ fn.err.Offset = fn.tokens[Len(fn.tokens)].position

\* ------------------------------------------------------------------------
\* Claims about a Parser and a Lexer that are used again
\* ------------------------------------------------------------------------
\* C29: whatever calls were made before on the same Parser, Parse(e) returns
\* the node or the error, with its expression and offset, that Parse(e)
\* returns on a new Parser; and tokenize(e) on a used Lexer returns the tokens
\* or the error that it returns on a new Lexer.
C29_ParseForgetsTheCallsBefore ==
  LET fresh == Parse(NewParser, fn.expression)
      lexed == tokenize(NewLexer, fn.expression)
  IN /\ fn.pc = "reused" /\ fn.op = "Parse"
          => fn.node = fresh.node /\ fn.err = fresh.err
     /\ fn.pc = "reused" /\ fn.op = "tokenize"
          => fn.tokens = lexed.tokens /\ fn.err = lexed.err

\* The parser has rejected [ , then a" in the lexer, and still holds the
\* tokens and the index of the former: the latter call returned the error of
\* a" at its offset.
C29_Witness ==
  /\ fn.pc = "reused" /\ fn.op = "Parse"
  /\ fn.previous.called /\ fn.previous.expression = <<"[">>
  /\ fn.previous.err.kind = "SyntaxError"
  /\ fn.expression = <<"a", "\"">>
  /\ fn.err.kind = "SyntaxError" /\ fn.err.Expression = fn.expression
  /\ fn.parser.tokens # <<>>

\* ------------------------------------------------------------------------
\* Claims about a RegisterFunction that fails
\* ------------------------------------------------------------------------
\* C30: a RegisterFunction that returns an error (a signature with an unknown
\* type name, the empty signature included) leaves the function table of the
\* compiled query, as that of every query, as it was before the call.
C30_FailedRegistrationChangesNothing ==
  [][\A q \in QueryIds : \A r \in Registrations :
       Register(q, r.name, r.args, r.variadic, r.handler) /\ IsErr(last'.err)
         => jp' = jp]_vars

\* The registration of f with the empty signature and the handler h2 has
\* failed on a query whose f is a registered function with the handler h1.
C30_Witness ==
  /\ last.op = "RegisterFunction" /\ last.args = <<>> /\ IsErr(last.err)
  /\ registry[last.q] # <<>>
  /\ "f" \in DOMAIN jp[last.q].fCall
  /\ jp[last.q].fCall["f"].handler = "h1"
  /\ jp[last.q].fCall["f"].arguments # <<>>
====
